---- MODULE Spec2Model ----
(***************************************************************************)
(* The schema version-control engine of RelWave: the conflict detector     *)
(* (services/conflictDetectionService.ts), the migration timeline and the  *)
(* environment resolver (services/migrationTimelineService.ts,             *)
(* services/environmentService.ts).  The version-control provider          *)
(* (GitService) and the diff engine (SchemaDiffService) are collaborators  *)
(* whose code is not part of the source tree: the provider's answers are   *)
(* inputs of each operation, the diff engine is modelled from its          *)
(* contract.                                                               *)
(***************************************************************************)
EXTENDS Integers, Sequences, FiniteSets, TLC

VARIABLES
    request, \* the request in flight: its method and parameters
    git,     \* what the version-control provider and the store answer to it
    result   \* pending, or what the operation returned or raised, with the
             \* provider calls it issued, in order

vars == <<request, git, result>>

----------------------------------------------------------------------------
(* Bounds of the model *)

\* at most this many tables in one snapshot
MaxTables == 2

\* at most this many commits in the history of the snapshot file
MaxCommits == 2

\* at most this many tags in the repository
MaxTags == 2

----------------------------------------------------------------------------
(* Snapshot model (projectStore.ts: SchemaFile, SchemaSnapshot, ...) *)

ColumnSnapshot(n, ty) ==
    [name |-> n, type |-> ty, nullable |-> FALSE, isPrimaryKey |-> FALSE,
     isForeignKey |-> FALSE, defaultValue |-> "null", isUnique |-> FALSE]

TableSnapshot(n, cols) == [name |-> n, type |-> "BASE TABLE", columns |-> cols]

SchemaSnapshot(n, tabs) == [name |-> n, tables |-> tabs]

\* SchemaFile | null: a parsed snapshot file, or its absence
SchemaFile(schemas) == [present |-> TRUE, schemas |-> schemas]

Absent == [present |-> FALSE, schemas |-> <<>>]

----------------------------------------------------------------------------
(* Sequence helpers *)

Map(f(_), s) == [i \in 1..Len(s) |-> f(s[i])]

NamesOf(s) == {s[i].name : i \in 1..Len(s)}

HasName(s, n) == \E i \in 1..Len(s) : s[i].name = n

\* Array.prototype.find by name: the first element so named
ByName(s, n) == s[CHOOSE i \in 1..Len(s) :
                    s[i].name = n /\ \A j \in 1..(i - 1) : s[j].name # n]

RECURSIVE Flatten(_)
Flatten(ss) == IF ss = <<>> THEN <<>> ELSE Head(ss) \o Flatten(Tail(ss))

\* Array.prototype.filter(c => c.severity === severity).length
CountSeverity(severity, s) == Cardinality({i \in 1..Len(s) : s[i].severity = severity})

----------------------------------------------------------------------------
(* Diff engine: SchemaDiffService.diff(before, after) *)

\* the entries of `after` in its order, then those only in `before`
OrderedNames(before, after) ==
    LET onlyBefore(e) == ~HasName(after, e.name)
        nm(e) == e.name
    IN  Map(nm, after) \o Map(nm, SelectSeq(before, onlyBefore))

ColumnChanged(b, a) ==
    \/ b.type # a.type
    \/ b.nullable # a.nullable
    \/ b.isPrimaryKey # a.isPrimaryKey
    \/ b.isForeignKey # a.isForeignKey
    \/ b.defaultValue # a.defaultValue
    \/ b.isUnique # a.isUnique

DiffColumns(before, after) ==
    LET one(n) ==
            [name |-> n,
             status |-> IF ~HasName(before, n) THEN "added"
                        ELSE IF ~HasName(after, n) THEN "removed"
                        ELSE IF ColumnChanged(ByName(before, n), ByName(after, n))
                             THEN "modified"
                        ELSE "unchanged"]
    IN  Map(one, OrderedNames(before, after))

DiffTables(before, after) ==
    LET one(n) ==
            IF ~HasName(before, n)
            THEN [name |-> n, status |-> "added",
                  columns |-> DiffColumns(<<>>, ByName(after, n).columns)]
            ELSE IF ~HasName(after, n)
            THEN [name |-> n, status |-> "removed",
                  columns |-> DiffColumns(ByName(before, n).columns, <<>>)]
            ELSE LET cols == DiffColumns(ByName(before, n).columns,
                                         ByName(after, n).columns)
                 IN  [name |-> n,
                      status |-> IF \E i \in 1..Len(cols) : cols[i].status # "unchanged"
                                 THEN "modified" ELSE "unchanged",
                      columns |-> cols]
    IN  Map(one, OrderedNames(before, after))

DiffSchemas(before, after) ==
    LET tablesOf(s, n) == IF HasName(s, n) THEN ByName(s, n).tables ELSE <<>>
        one(n) == [name |-> n,
                   tables |-> DiffTables(tablesOf(before, n), tablesOf(after, n))]
    IN  Map(one, OrderedNames(before, after))

\* how many entries of a diff list carry the status
CountStatus(status, entries) ==
    Cardinality({i \in 1..Len(entries) : entries[i].status = status})

DiffSummary(schemas) ==
    LET tabs == Flatten(Map(LAMBDA s : s.tables, schemas))
        cols == Flatten(Map(LAMBDA t : t.columns, tabs))
    IN  [tablesAdded |-> CountStatus("added", tabs),
         tablesRemoved |-> CountStatus("removed", tabs),
         tablesModified |-> CountStatus("modified", tabs),
         columnsAdded |-> CountStatus("added", cols),
         columnsRemoved |-> CountStatus("removed", cols),
         columnsModified |-> CountStatus("modified", cols),
         hasChanges |-> \/ \E i \in 1..Len(tabs) : tabs[i].status # "unchanged"
                        \/ \E i \in 1..Len(cols) : cols[i].status # "unchanged"]

\* an absent snapshot is a snapshot with zero schemas
Diff(before, after) ==
    LET schemas == DiffSchemas(IF before.present THEN before.schemas ELSE <<>>,
                               IF after.present THEN after.schemas ELSE <<>>)
    IN  [schemas |-> schemas, summary |-> DiffSummary(schemas)]

----------------------------------------------------------------------------
(* Conflict detector: ConflictDetectionService.findConflicts *)

\* `${s.name}.${t.name}`
Key(schemaName, tableName) == schemaName \o "." \o tableName

\* Map.set on a map held as a function
MapSet(m, k, v) == [x \in (DOMAIN m) \cup {k} |-> IF x = k THEN v ELSE m[x]]

EmptyMap == [x \in {} |-> ""]

\* for (const s of diff.schemas) for (const t of s.tables): the visits in order
TableVisits(diff) ==
    Flatten(Map(LAMBDA s : Map(LAMBDA t : [schema |-> s.name, table |-> t], s.tables),
                diff.schemas))

ChangedCols(t) ==
    {t.columns[i].name : i \in {j \in 1..Len(t.columns) :
                                    t.columns[j].status # "unchanged"}}

RECURSIVE TableMapFrom(_, _)
TableMapFrom(visits, m) ==
    IF visits = <<>> THEN m
    ELSE LET v == Head(visits)
             key == Key(v.schema, v.table.name)
         IN  TableMapFrom(Tail(visits),
                          IF v.table.status # "unchanged"
                          THEN MapSet(m, key, v.table.status) ELSE m)

RECURSIVE ColMapFrom(_, _)
ColMapFrom(visits, m) ==
    IF visits = <<>> THEN m
    ELSE LET v == Head(visits)
             key == Key(v.schema, v.table.name)
             changedCols == ChangedCols(v.table)
         IN  ColMapFrom(Tail(visits),
                        IF changedCols # {}
                        THEN MapSet(m, key, changedCols) ELSE m)

\* "schema.table" -> status of theirs, unchanged tables left out
TheirsTableMap(theirsDiff) == TableMapFrom(TableVisits(theirsDiff), EmptyMap)

\* "schema.table" -> names of the columns theirs changed
TheirsColMap(theirsDiff) == ColMapFrom(TableVisits(theirsDiff), EmptyMap)

Conflict(schemaName, tableName, type, severity) ==
    [table |-> tableName, schema |-> schemaName, type |-> type,
     severity |-> severity, hasColumns |-> FALSE, columns |-> <<>>]

\* the columns of ours' table entry t that theirs changed too
ConflictingColumns(t, theirsCols) ==
    LET hit(c) == c.status # "unchanged" /\ c.name \in theirsCols
        col(c) == [name |-> c.name, oursChange |-> c.status,
                   theirsChange |-> "modified"]
    IN  Map(col, SelectSeq(t.columns, hit))

\* what one visit of ours' walk pushes: no conflict or one
ConflictsAt(v, theirsTableMap, theirsColMap) ==
    LET t == v.table
        key == Key(v.schema, t.name)
    IN  IF t.status = "unchanged" THEN <<>>
        ELSE IF key \notin DOMAIN theirsTableMap THEN <<>>
        ELSE LET theirsStatus == theirsTableMap[key]
             IN  IF t.status = "removed" /\ theirsStatus = "modified"
                 THEN <<Conflict(v.schema, t.name, "modified-deleted", "high")>>
                 ELSE IF t.status = "modified" /\ theirsStatus = "removed"
                 THEN <<Conflict(v.schema, t.name, "modified-deleted", "high")>>
                 ELSE IF t.status = "added" /\ theirsStatus = "added"
                 THEN <<Conflict(v.schema, t.name, "both-added", "medium")>>
                 ELSE IF t.status = "modified" /\ theirsStatus = "modified"
                 THEN LET theirsCols == IF key \in DOMAIN theirsColMap
                                        THEN theirsColMap[key] ELSE {}
                          conflictingColumns == ConflictingColumns(t, theirsCols)
                      IN  IF Len(conflictingColumns) > 0
                          THEN <<[Conflict(v.schema, t.name, "both-modified", "high")
                                    EXCEPT !.hasColumns = TRUE,
                                           !.columns = conflictingColumns]>>
                          ELSE <<Conflict(v.schema, t.name, "both-modified", "low")>>
                 ELSE <<>>

\* the conflicts left in the order of the walk
SortBySeverityNot(conflicts) == conflicts

\* conflicts.sort by severityOrder (Array.prototype.sort is stable)
SortBySeverity(conflicts) ==
    SelectSeq(conflicts, LAMBDA c : c.severity = "high")
    \o SelectSeq(conflicts, LAMBDA c : c.severity = "medium")
    \o SelectSeq(conflicts, LAMBDA c : c.severity = "low")

FindConflicts(oursDiff, theirsDiff) ==
    LET theirsTableMap == TheirsTableMap(theirsDiff)
        theirsColMap == TheirsColMap(theirsDiff)
    IN  SortBySeverity(
            Flatten(Map(LAMBDA v : ConflictsAt(v, theirsTableMap, theirsColMap),
                        TableVisits(oursDiff))))

----------------------------------------------------------------------------
(* What the version-control provider can answer *)

\* status.branch of a detached HEAD, a failed lookup: null
Null == "null"

\* a path or a hash is held as the pieces whose concatenation it is
RECURSIVE Concat(_)
Concat(pieces) == IF pieces = <<>> THEN "" ELSE Head(pieces) \o Concat(Tail(pieces))

\* f.endsWith("schema.json")
EndsWithSchemaJson(f) == Len(f) > 0 /\ f[Len(f)] = "schema.json"

\* path.relative(repoRoot, path.join(dir, "schema", "schema.json")), "/"-separated
RelSchemaPath(g) == g.projectPath \o <<"schema/", "schema.json">>

\* (schema name, table name); the first and the last share one "schema.table" text
TableIds == << <<"a", "b.c">>, <<"a", "t">>, <<"a.b", "c">> >>

SchemaNames == <<"a", "a.b">>

\* the column lists a table is given, by name
ColumnsOf(shape) ==
    CASE shape = "id" -> <<ColumnSnapshot("id", "int")>>
      [] shape = "id,x" -> <<ColumnSnapshot("id", "int"), ColumnSnapshot("x", "int")>>
      [] shape = "id:text,x" ->
            <<ColumnSnapshot("id", "text"), ColumnSnapshot("x", "int")>>
      [] shape = "id,x:text" ->
            <<ColumnSnapshot("id", "int"), ColumnSnapshot("x", "text")>>

\* the snapshot file holding the tables of DOMAIN shapeOf, each with its columns
SnapshotOf(shapeOf) ==
    LET tablesIn(sn) ==
            Map(LAMBDA i : TableSnapshot(TableIds[i][2], ColumnsOf(shapeOf[i])),
                SelectSeq(<<1, 2, 3>>,
                          LAMBDA i : i \in DOMAIN shapeOf /\ TableIds[i][1] = sn))
        schema(sn) == SchemaSnapshot(sn, tablesIn(sn))
    IN  SchemaFile(SelectSeq(Map(schema, SchemaNames), LAMBDA sc : sc.tables # <<>>))

\* the content getFileAtRef finds: it throws, returns nothing, or returns text;
\* well-formed text is held as the tables it serialises
Throws == [kind |-> "throw", wellFormed |-> FALSE, tables |-> <<>>]
Empty == [kind |-> "empty", wellFormed |-> FALSE, tables |-> <<>>]
Malformed == [kind |-> "text", wellFormed |-> FALSE, tables |-> <<>>]
JsonOf(shapeOf) == [kind |-> "text", wellFormed |-> TRUE, tables |-> shapeOf]

\* JSON.parse: the value, or a SyntaxError
JSONParse(raw) ==
    IF raw.wellFormed THEN [threw |-> FALSE, value |-> SnapshotOf(raw.tables)]
    ELSE [threw |-> TRUE, value |-> Absent]

GetFileAtRef(g, ref) == g.fileAt[ref]

----------------------------------------------------------------------------
(* ConflictDetectionService.detectConflicts *)

\* readSchemaAt without its try/catch: a failed read or parse reaches the caller
ReadSchemaAtUncaught(g, ref) ==
    LET raw == GetFileAtRef(g, ref)
    IN  IF raw.kind = "throw" THEN [threw |-> TRUE, value |-> Absent]
        ELSE IF raw.kind = "empty" THEN [threw |-> FALSE, value |-> Absent]
        ELSE JSONParse(raw)

ReadSchemaAt(g, ref) ==
    LET raw == GetFileAtRef(g, ref)
    IN  IF raw.kind = "throw" THEN [threw |-> FALSE, value |-> Absent]
        ELSE IF raw.kind = "empty" THEN [threw |-> FALSE, value |-> Absent]
        ELSE LET parsed == JSONParse(raw)
             IN  IF parsed.threw THEN [threw |-> FALSE, value |-> Absent]
                 ELSE [threw |-> FALSE, value |-> parsed.value]

EmptyReport(currentBranch, targetBranch) ==
    [currentBranch |-> currentBranch,
     targetBranch |-> targetBranch,
     mergeBase |-> Null,
     fileConflicts |-> <<>>,
     schemaConflicts |-> <<>>,
     hasSchemaFileConflict |-> FALSE,
     conflictCount |-> 0,
     summary |-> "Not a git repository"]

SafeToMerge == "No schema conflicts detected - safe to merge"

TextLevelConflict ==
    "Git detects a text-level conflict in schema.json but no structural conflicts"

NoCommonAncestor == "No common ancestor found between branches"

\* the summary with the textual conflict left out of the first test
SummaryIgnoringTextConflict(schemaConflicts, hasSchemaFileConflict) ==
    IF Len(schemaConflicts) = 0 THEN SafeToMerge
    ELSE ToString(Len(schemaConflicts)) \o " conflicting table"

\* the summary with both counts in its parenthetical
SummaryOfBothCounts(schemaConflicts, hasSchemaFileConflict) ==
    LET conflictCount == Len(schemaConflicts)
        high == CountSeverity("high", schemaConflicts)
        med == CountSeverity("medium", schemaConflicts)
    IN  IF conflictCount = 0 /\ ~hasSchemaFileConflict THEN SafeToMerge
        ELSE IF hasSchemaFileConflict /\ conflictCount = 0 THEN TextLevelConflict
        ELSE ToString(conflictCount) \o " conflicting table"
                \o (IF conflictCount > 1 THEN "s" ELSE "")
                \o " (" \o ToString(high) \o " high severity, "
                \o ToString(med) \o " medium severity)"

Summary(schemaConflicts, hasSchemaFileConflict) ==
    LET conflictCount == Len(schemaConflicts)
        high == CountSeverity("high", schemaConflicts)
        med == CountSeverity("medium", schemaConflicts)
    IN  IF conflictCount = 0 /\ ~hasSchemaFileConflict THEN SafeToMerge
        ELSE IF hasSchemaFileConflict /\ conflictCount = 0 THEN TextLevelConflict
        ELSE ToString(conflictCount) \o " conflicting table"
                \o (IF conflictCount > 1 THEN "s" ELSE "")
                \o (IF high # 0 THEN " (" \o ToString(high) \o " high severity)"
                    ELSE IF med # 0 THEN " (" \o ToString(med) \o " medium severity)"
                    ELSE "")

HasSchemaFileConflict(g, fileConflicts) ==
    \E i \in 1..Len(fileConflicts) :
        \/ EndsWithSchemaJson(fileConflicts[i])
        \/ Concat(fileConflicts[i]) = Concat(RelSchemaPath(g))

\* how an operation ends: with a value, or with an error raised to its caller
Returned(value, log) == [status |-> "returned", value |-> value, calls |-> log]

Raised(log) == [status |-> "raised", value |-> <<>>, calls |-> log]

\* the no-ancestor report with the summary of emptyReport left in place
UnrelatedReportUnexplained(g, targetBranch, log) ==
    Returned(EmptyReport(g.branch, targetBranch), log)

\* the report when no common ancestor exists
UnrelatedReport(g, targetBranch, log) ==
    Returned([EmptyReport(g.branch, targetBranch) EXCEPT !.summary = NoCommonAncestor],
             log)

\* the report once the merge-base is known
MergeReport(g, targetBranch, currentRef, log) ==
    LET fileConflicts == g.dryMerge
        hasSchemaFileConflict == HasSchemaFileConflict(g, fileConflicts)
        base == ReadSchemaAt(g, Concat(g.mergeBase))
        ours == ReadSchemaAt(g, currentRef)
        theirs == ReadSchemaAt(g, targetBranch)
        reads == log \o <<"dryMerge", "getFileAtRef", "getFileAtRef", "getFileAtRef">>
    IN  IF base.threw \/ ours.threw \/ theirs.threw THEN Raised(reads)
        ELSE LET oursDiff == Diff(base.value, ours.value)
                 theirsDiff == Diff(base.value, theirs.value)
                 schemaConflicts == FindConflicts(oursDiff, theirsDiff)
             IN  Returned([currentBranch |-> g.branch,
                           targetBranch |-> targetBranch,
                           mergeBase |-> g.mergeBase[1],
                           fileConflicts |-> fileConflicts,
                           schemaConflicts |-> schemaConflicts,
                           hasSchemaFileConflict |-> hasSchemaFileConflict,
                           conflictCount |-> Len(schemaConflicts),
                           summary |-> Summary(schemaConflicts, hasSchemaFileConflict)],
                          reads)

\* currentBranch ?? "HEAD"
CurrentRef(g) == IF g.branch = Null THEN "HEAD" ELSE g.branch

DetectConflicts(g, targetBranch) ==
    IF ~g.isRepo THEN Returned(EmptyReport(Null, targetBranch), <<"isRepo">>)
    ELSE LET currentRef == CurrentRef(g)
             log == <<"isRepo", "getRepoRoot", "getStatus", "mergeBase">>
         IN  IF g.mergeBase = <<>> THEN UnrelatedReport(g, targetBranch, log)
             ELSE MergeReport(g, targetBranch, currentRef, log)

----------------------------------------------------------------------------
(* MigrationTimelineService *)

\* TAG_PREFIX, AUTO_COMMIT_PREFIX
TagPrefix == "relwave/schema/"
AutoCommitPrefix == "[relwave] "

\* text.startsWith(prefix), on text held as its pieces
StartsWith(text, prefix) == Len(text) > 0 /\ text[1] = prefix

Min(a, b) == IF a < b THEN a ELSE b

\* git.fileLog(repoRoot, relSchemaPath, count): the newest count commits of the file
FileLog(g, count) == SubSeq(g.log, 1, Min(count, Len(g.log)))

\* git.listTags(repoRoot, `${TAG_PREFIX}*`)
ListTags(g) == SelectSeq(g.tags, LAMBDA t : StartsWith(t.name, TagPrefix))

\* every listed tag attached to every commit
TagsOfAnyCommit(allTags, fullHash) == Map(LAMBDA t : Concat(t.name), allTags)

\* tagsByCommit.get(fullHash) ?? []: the tags that resolve to the commit, in
\* listing order; a tag whose resolution throws or yields nothing is skipped
TagsByCommit(allTags, fullHash) ==
    Map(LAMBDA t : Concat(t.name),
        SelectSeq(allTags, LAMBDA t : t.target # <<>> /\ ~t.throws /\ t.target = fullHash))

TimelineEntry(c, allTags) ==
    [hash |-> c.fullHash[1],
     fullHash |-> Concat(c.fullHash),
     author |-> c.author,
     date |-> c.date,
     subject |-> Concat(c.subject),
     tags |-> TagsByCommit(allTags, c.fullHash),
     isAutoCommit |-> StartsWith(c.subject, AutoCommitPrefix)]

\* the timeline built from the whole log, the limit not passed on
GetTimelineUnlimited(g, count) ==
    IF ~g.isRepo THEN Returned(<<>>, <<"isRepo">>)
    ELSE LET allTags == ListTags(g)
         IN  Returned(Map(LAMBDA c : TimelineEntry(c, allTags), g.log),
                      <<"isRepo", "getRepoRoot", "fileLog", "listTags">>)

GetTimeline(g, count) ==
    IF ~g.isRepo THEN Returned(<<>>, <<"isRepo">>)
    ELSE LET commits == FileLog(g, count)
         IN  IF Len(commits) = 0
             THEN Returned(<<>>, <<"isRepo", "getRepoRoot", "fileLog">>)
             ELSE LET allTags == ListTags(g)
                  IN  Returned(Map(LAMBDA c : TimelineEntry(c, allTags), commits),
                               <<"isRepo", "getRepoRoot", "fileLog", "listTags">>
                                 \o Map(LAMBDA t : "resolveRef", allTags))

\* the summary with the column counts copied from the table counts
TimelineChangeSummaryOfTables(diff) ==
    [tablesAdded |-> diff.summary.tablesAdded,
     tablesRemoved |-> diff.summary.tablesRemoved,
     tablesModified |-> diff.summary.tablesModified,
     columnsAdded |-> diff.summary.tablesAdded,
     columnsRemoved |-> diff.summary.tablesRemoved,
     columnsModified |-> diff.summary.tablesModified]

\* the six counts of diff.summary
TimelineChangeSummary(diff) ==
    [tablesAdded |-> diff.summary.tablesAdded,
     tablesRemoved |-> diff.summary.tablesRemoved,
     tablesModified |-> diff.summary.tablesModified,
     columnsAdded |-> diff.summary.columnsAdded,
     columnsRemoved |-> diff.summary.columnsRemoved,
     columnsModified |-> diff.summary.columnsModified]

\* try { raw = await git.getFileAtRef(...) } catch { }: null when the read throws
RawOrNull(g, ref) ==
    LET raw == GetFileAtRef(g, ref) IN IF raw.kind = "throw" THEN Empty ELSE raw

\* raw ? JSON.parse(raw) : null, outside any try
ParseOrNull(raw) ==
    IF raw.kind = "empty" THEN [threw |-> FALSE, value |-> Absent] ELSE JSONParse(raw)

\* the summary of a commit taken against nothing instead of its parent
GetCommitSummaryFromAbsent(g, commitHash) ==
    IF ~g.isRepo THEN Returned(Null, <<"isRepo">>)
    ELSE LET afterRaw == RawOrNull(g, commitHash)
             log == <<"isRepo", "getRepoRoot", "getFileAtRef", "getFileAtRef">>
             after == ParseOrNull(afterRaw)
         IN  IF after.threw THEN Raised(log)
             ELSE Returned(TimelineChangeSummary(Diff(Absent, after.value)), log)

GetCommitSummary(g, commitHash) ==
    IF ~g.isRepo THEN Returned(Null, <<"isRepo">>)
    ELSE LET afterRaw == RawOrNull(g, commitHash)
             beforeRaw == RawOrNull(g, commitHash \o "~1")
             log == <<"isRepo", "getRepoRoot", "getFileAtRef", "getFileAtRef">>
             before == ParseOrNull(beforeRaw)
             after == ParseOrNull(afterRaw)
         IN  IF before.threw \/ after.threw THEN Raised(log)
             ELSE Returned(TimelineChangeSummary(Diff(before.value, after.value)), log)

\* ProjectStore.readJSON: the parsed file, null when missing or unparsable
ReadJSON(file) ==
    IF file.kind # "text" THEN Absent
    ELSE LET parsed == JSONParse(file)
         IN  IF parsed.threw THEN Absent ELSE parsed.value

\* ProjectStore.getSchema
GetSchema(g) == ReadJSON(g.stored)

\* getWorkingTreeSummary: the stored snapshot against the file at HEAD
GetWorkingTreeSummary(g) ==
    LET beforeRaw == RawOrNull(g, "HEAD")
        log == <<"getRepoRoot", "getFileAtRef">>
        before == ParseOrNull(beforeRaw)
        after == GetSchema(g)
    IN  IF before.threw THEN Raised(log)
        ELSE Returned(TimelineChangeSummary(Diff(before.value, after)), log)

Plural(n) == IF n > 1 THEN "s" ELSE ""

\* parts.join(", ")
RECURSIVE Join(_)
Join(parts) ==
    IF parts = <<>> THEN ""
    ELSE IF Len(parts) = 1 THEN parts[1]
    ELSE parts[1] \o ", " \o Join(Tail(parts))

\* the message generated from the working-tree summary, held as its pieces
GeneratedMessage(summary) ==
    LET part(sign, n) ==
            IF n # 0 THEN <<sign \o ToString(n) \o " table" \o Plural(n)>> ELSE <<>>
        parts == part("+", summary.tablesAdded) \o part("-", summary.tablesRemoved)
                    \o part("~", summary.tablesModified)
    IN  IF parts # <<>> THEN <<AutoCommitPrefix, Join(parts)>>
        ELSE <<AutoCommitPrefix, "schema update">>

\* the snapshot file staged together with the project metadata
StagedWithMetadata == << <<"schema/", "schema.json">>, <<"relwave.json">> >>

\* [relSchemaPath]: the paths autoCommitSchema hands to commitFiles
StagedFiles == << <<"schema/", "schema.json">> >>

\* git.commitFiles: the repository with the new commit of the snapshot file
CommitFiles(g, files, message) ==
    [g EXCEPT !.log = <<[fullHash |-> g.newHash, author |-> "dev",
                         date |-> "2026-01-01T00:00:00Z", subject |-> message,
                         files |-> files]>> \o @]

\* git.createTag: the repository with the annotated tag on the new commit
CreateTag(g, tagName) ==
    [g EXCEPT !.tags = Append(@, [name |-> tagName, target |-> g.newHash,
                                  throws |-> FALSE])]

\* the tag created first, whatever becomes of the commit
CommitAndTagTagFirst(g, message, tag, log) ==
    LET tagName == IF StartsWith(tag, TagPrefix) THEN tag ELSE <<TagPrefix>> \o tag
        tagged == IF tag = <<>> THEN g ELSE CreateTag(g, tagName)
    IN  IF g.commitFails
        THEN [repo |-> tagged, outcome |-> Raised(log \o <<"createTag", "commitFiles">>)]
        ELSE [repo |-> CommitFiles(tagged, StagedFiles, message),
              outcome |-> Returned([hash |-> g.newHash[1],
                                    tag |-> IF tag = <<>> THEN Null ELSE Concat(tagName),
                                    message |-> Concat(message)],
                                   log \o <<"createTag", "commitFiles">>)]

\* commitFiles, then createTag when a tag is asked for
CommitAndTag(g, message, tag, log) ==
    IF g.commitFails THEN [repo |-> g, outcome |-> Raised(log \o <<"commitFiles">>)]
    ELSE IF tag = <<>>
    THEN [repo |-> CommitFiles(g, StagedFiles, message),
          outcome |-> Returned([hash |-> g.newHash[1], tag |-> Null,
                                message |-> Concat(message)],
                               log \o <<"commitFiles">>)]
    ELSE LET tagName == IF StartsWith(tag, TagPrefix) THEN tag ELSE <<TagPrefix>> \o tag
             log2 == log \o <<"commitFiles", "createTag">>
         IN  IF g.tagFails
             THEN [repo |-> CommitFiles(g, StagedFiles, message), outcome |-> Raised(log2)]
             ELSE [repo |-> CreateTag(CommitFiles(g, StagedFiles, message), tagName),
                   outcome |-> Returned([hash |-> g.newHash[1],
                                         tag |-> Concat(tagName),
                                         message |-> Concat(message)], log2)]

\* the auto-commit without the repository check
AutoCommitSchemaUnchecked(g, message, tag) ==
    CommitAndTag(g, IF message # <<>> THEN message ELSE <<AutoCommitPrefix, "schema update">>,
                 tag, <<"getRepoRoot">>)

AutoCommitSchema(g, message, tag) ==
    IF ~g.isRepo THEN [repo |-> g, outcome |-> Raised(<<"isRepo">>)]
    ELSE IF message # <<>>
    THEN CommitAndTag(g, message, tag, <<"isRepo", "getRepoRoot">>)
    ELSE LET summary == GetWorkingTreeSummary(g)
             log == <<"isRepo", "getRepoRoot">> \o summary.calls
         IN  IF summary.status = "raised" THEN [repo |-> g, outcome |-> Raised(log)]
             ELSE CommitAndTag(g, GeneratedMessage(summary.value), tag, log)

----------------------------------------------------------------------------
(* EnvironmentService *)

\* readMetadataRaw: relwave.json parsed, null when missing or unparsable
ReadMetadataRaw(g) == IF g.meta.kind = "json" THEN g.meta ELSE [kind |-> "null"]

NoMappings == [mappings |-> <<>>, defaultEnvironment |-> Null]

\* getConfig: meta?.environments ?? { mappings: [] }
GetConfig(g) ==
    LET meta == ReadMetadataRaw(g)
    IN  IF meta.kind = "json" /\ meta.hasEnvironments THEN meta.environments
        ELSE NoMappings

\* config.mappings.find((m) => m.branch === branch): its index, 0 when none
FindMapping(mappings, branch) ==
    IF \E i \in 1..Len(mappings) : mappings[i].branch = branch
    THEN CHOOSE i \in 1..Len(mappings) :
            mappings[i].branch = branch /\ \A j \in 1..(i - 1) : mappings[j].branch # branch
    ELSE 0

\* saveConfig that starts a relwave.json when it finds none
SaveConfigCreating(g, config) ==
    [repo |-> [g EXCEPT !.meta = [kind |-> "json", hasEnvironments |-> TRUE,
                                  environments |-> config]],
     outcome |-> Returned(config, <<>>)]

\* saveConfig: the environments block replaced in relwave.json, which must exist
SaveConfig(g, config) ==
    IF ReadMetadataRaw(g).kind # "json" THEN [repo |-> g, outcome |-> Raised(<<>>)]
    ELSE [repo |-> [g EXCEPT !.meta = [kind |-> "json", hasEnvironments |-> TRUE,
                                       environments |-> config]],
          outcome |-> Returned(config, <<>>)]

\* setMapping that always appends
SetMappingAppending(g, mapping) ==
    LET config == GetConfig(g)
    IN  SaveConfig(g, [config EXCEPT !.mappings = Append(@, mapping)])

\* setMapping: the entry of the branch replaced in place, or the mapping appended
SetMapping(g, mapping) ==
    LET config == GetConfig(g)
        idx == FindMapping(config.mappings, mapping.branch)
    IN  SaveConfig(g, [config EXCEPT !.mappings =
                            IF idx # 0 THEN [@ EXCEPT ![idx] = mapping]
                            ELSE Append(@, mapping)])

\* removeMapping: every entry of the branch filtered out
RemoveMapping(g, branch) ==
    LET config == GetConfig(g)
    IN  SaveConfig(g, [config EXCEPT !.mappings =
                            SelectSeq(@, LAMBDA m : m.branch # branch)])

\* ProjectStore.saveLocalConfig: relwave.local.json replaced
SaveLocalConfig(g, config) ==
    [repo |-> [g EXCEPT !.localConfig = config], outcome |-> Returned(config, <<>>)]

\* the branch lookup without the repository check
CurrentBranchUnchecked(g) == [branch |-> g.branch, calls |-> <<"isRepo", "getStatus">>]

\* the current branch: asked of the provider only inside a repository
CurrentBranch(g) ==
    IF g.isRepo THEN [branch |-> g.branch, calls |-> <<"isRepo", "getStatus">>]
    ELSE [branch |-> Null, calls |-> <<"isRepo">>]

\* branch ? config.mappings.find(...) : undefined
MatchedMapping(config, branch) ==
    IF branch # Null /\ branch # "" THEN FindMapping(config.mappings, branch) ELSE 0

\* the label with the default taken before the mapping's
EnvironmentDefaultFirst(config, found) ==
    IF config.defaultEnvironment # Null THEN config.defaultEnvironment
    ELSE IF found # 0 THEN config.mappings[found].environment
    ELSE "development"

\* mapping?.environment ?? config.defaultEnvironment ?? "development"
Environment(config, found) ==
    IF found # 0 THEN config.mappings[found].environment
    ELSE IF config.defaultEnvironment # Null THEN config.defaultEnvironment
    ELSE "development"

\* production whenever a mapping matches
IsProductionOfAnyMatch(config, found) == found # 0

\* mapping?.isProduction ?? false; the flag is optional, <<>> when not set
IsProduction(config, found) ==
    IF found # 0 /\ config.mappings[found].isProduction # <<>>
    THEN config.mappings[found].isProduction[1]
    ELSE FALSE

\* the connection with the mapping's URL taken before the local override
ConnectionMappingFirst(localConfig, config, found) ==
    IF found # 0 /\ config.mappings[found].connectionUrl # Null
                 /\ config.mappings[found].connectionUrl # ""
    THEN [connectionUrl |-> config.mappings[found].connectionUrl,
          connectionSource |-> "mapping"]
    ELSE IF localConfig.connectionUrl # Null /\ localConfig.connectionUrl # ""
    THEN [connectionUrl |-> localConfig.connectionUrl, connectionSource |-> "local"]
    ELSE [connectionUrl |-> Null, connectionSource |-> "none"]

\* the connection URL and the tier it comes from: local override, mapping, none
Connection(localConfig, config, found) ==
    IF localConfig.connectionUrl # Null /\ localConfig.connectionUrl # ""
    THEN [connectionUrl |-> localConfig.connectionUrl, connectionSource |-> "local"]
    ELSE IF found # 0 /\ config.mappings[found].connectionUrl # Null
                      /\ config.mappings[found].connectionUrl # ""
    THEN [connectionUrl |-> config.mappings[found].connectionUrl,
          connectionSource |-> "mapping"]
    ELSE [connectionUrl |-> Null, connectionSource |-> "none"]

Resolve(g) ==
    LET branch == CurrentBranch(g).branch
        log == CurrentBranch(g).calls
        config == GetConfig(g)
        localConfig == g.localConfig
        found == MatchedMapping(config, branch)
        connection == Connection(localConfig, config, found)
    IN  Returned([branch |-> branch,
                  environment |-> Environment(config, found),
                  isProduction |-> IsProduction(config, found),
                  connectionUrl |-> connection.connectionUrl,
                  connectionSource |-> connection.connectionSource],
                 log)

----------------------------------------------------------------------------
(* The inputs the operations are run on *)

BaseShapes == {"id", "id,x"}
BranchShapes == {"id", "id,x", "id:text,x"}
AllShapes == BranchShapes \cup {"id,x:text"}

\* the table sets a repository's history can span
Universes == {U \in SUBSET (1..3) : Cardinality(U) <= MaxTables}

Texts(U, shapes) == {JsonOf(f) : f \in UNION {[S -> shapes] : S \in SUBSET U}}

Unreadable == {Throws, Empty, Malformed}

MergeBaseHash == <<"3f9c2a1b", "7d4e5f60718293a4b5c6d7e8f9a0b1c2">>

TargetBranches == {"main"}
Branches == {Null, "feature"}

DryMerges ==
    {<<>>, << <<"schema/", "schema.json">> >>, << <<"README.md">> >>,
     << <<"docs/", "schema.json">> >>}

NotARepo ==
    [isRepo |-> FALSE, projectPath |-> <<>>, branch |-> Null, mergeBase |-> <<>>,
     dryMerge |-> <<>>, fileAt |-> EmptyMap]

\* repositories in which the two branches share no history
Unrelated ==
    {[NotARepo EXCEPT !.isRepo = TRUE, !.branch = b] : b \in Branches}

Repo(b, d, base, ours, theirs) ==
    [isRepo |-> TRUE, projectPath |-> <<>>, branch |-> b, mergeBase |-> MergeBaseHash,
     dryMerge |-> d,
     fileAt |-> [r \in {Concat(MergeBaseHash), "main", IF b = Null THEN "HEAD" ELSE b}
                   |-> IF r = "main" THEN theirs
                       ELSE IF r = Concat(MergeBaseHash) THEN base ELSE ours]]

\* a clean textual merge of every three-way history over the tables
Structural(g) ==
    \E U \in Universes :
        \E base \in Texts(U, BaseShapes), ours \in Texts(U, BranchShapes),
           theirs \in Texts(U, BranchShapes) :
            g = Repo("feature", <<>>, base, ours, theirs)

\* the snapshot files over all three tables that keep a.t as it is
AnchoredTexts(shapes) ==
    {JsonOf(f) : f \in {h \in UNION {[S \cup {2} -> shapes] : S \in SUBSET {1, 3}} :
                            h[2] = "id"}}

\* the three-way histories over all three tables in which schema a always keeps
\* its table t
Anchored(g) ==
    \E base \in AnchoredTexts(BaseShapes), ours \in AnchoredTexts(BranchShapes),
       theirs \in AnchoredTexts(BranchShapes) :
        g = Repo("feature", <<>>, base, ours, theirs)

\* every branch state, textual conflict and unreadable ref over one table
Flagged(g) ==
    LET few == Unreadable \cup Texts({2}, AllShapes)
    IN  \E b \in Branches, d \in DryMerges :
            \E base \in Unreadable \cup Texts({2}, {"id,x"}), ours \in few, theirs \in few :
                g = Repo(b, d, base, ours, theirs)

ConflictWorld(g) ==
    \/ g = NotARepo
    \/ g \in Unrelated
    \/ Structural(g)
    \/ Anchored(g)
    \/ Flagged(g)

\* the repository the timeline operations run on, before any commit of theirs
Timeline(isRepo, log, tags, fileAt, stored, commitFails, tagFails) ==
    [isRepo |-> isRepo, log |-> log, tags |-> tags, fileAt |-> fileAt,
     stored |-> stored, commitFails |-> commitFails, tagFails |-> tagFails,
     newHash |-> <<"9e8d7c6b", "5a49382716051423324150607f8e9dac">>]

Commit(hash, subject) ==
    [fullHash |-> hash, author |-> "dev", date |-> "2025-12-31T00:00:00Z",
     subject |-> subject, files |-> << <<"schema/", "schema.json">> >>]

Hash1 == <<"1a2b3c4d", "5e6f708192a3b4c5d6e7f8091a2b3c4d">>
Hash2 == <<"2b3c4d5e", "6f708192a3b4c5d6e7f8091a2b3c4d5e">>
\* a commit that did not touch the snapshot file
Hash3 == <<"3c4d5e6f", "708192a3b4c5d6e7f8091a2b3c4d5e6f">>

Commits == {Commit(Hash1, <<AutoCommitPrefix, "schema update">>),
            Commit(Hash2, <<"fix typo">>)}

\* the file's history: commits, newest first, none twice
Logs ==
    {l \in UNION {[1..n -> Commits] : n \in 0..MaxCommits} :
        \A i, j \in 1..Len(l) : i # j => l[i] # l[j]}

TagChoices ==
    {[name |-> n, target |-> t, throws |-> th] :
        n \in {<<TagPrefix, "v1">>, <<"v1">>},
        t \in {Hash1, Hash3, <<>>}, th \in BOOLEAN}

TagLists == UNION {[1..n -> TagChoices] : n \in 0..MaxTags}

NoFiles == EmptyMap

TimelineWorld(g) ==
    \/ g = Timeline(FALSE, <<>>, <<>>, NoFiles, Empty, FALSE, FALSE)
    \/ \E l \in Logs, t \in TagLists :
            g = Timeline(TRUE, l, t, NoFiles, Empty, FALSE, FALSE)

CommitContents == Unreadable \cup Texts({2, 3}, BranchShapes)

SummaryWorld(g) ==
    \/ g = Timeline(FALSE, <<>>, <<>>, NoFiles, Empty, FALSE, FALSE)
    \/ \E after \in CommitContents, before \in CommitContents :
            g = Timeline(TRUE, <<>>, <<>>,
                         [r \in {"c1", "c1~1"} |-> IF r = "c1" THEN after ELSE before],
                         Empty, FALSE, FALSE)

AutoCommitWorld(g) ==
    \/ g = Timeline(FALSE, <<>>, <<>>, NoFiles, Empty, FALSE, FALSE)
    \/ \E head \in Unreadable \cup Texts({2}, BaseShapes),
          stored \in {Empty, Malformed} \cup Texts({2, 3}, BranchShapes),
          cf \in BOOLEAN, tf \in BOOLEAN :
            g = Timeline(TRUE, <<>>, <<>>, [r \in {"HEAD"} |-> head], stored, cf, tf)

Messages == {<<>>, <<"add users">>, <<AutoCommitPrefix, "manual">>}
TagNames == {<<>>, <<"v1">>, <<TagPrefix, "v1">>}

\* an EnvironmentMapping; prod is <<>> when the production flag is not set
Mapping(branch, environment, url, prod) ==
    [branch |-> branch, environment |-> environment, connectionUrl |-> url,
     isProduction |-> prod]

MainProd == Mapping("main", "production", "postgres://shared/prod", <<TRUE>>)

MainStaging == Mapping("main", "staging", Null, <<FALSE>>)

FeaturePreview == Mapping("feature", "preview", "postgres://shared/preview", <<>>)

\* the mapping lists relwave.json starts with: branches differing in case only,
\* a mapping without a URL, a mapping without a production flag
MappingLists ==
    {<<>>,
     <<MainProd>>,
     <<MainStaging>>,
     <<Mapping("Main", "demo", "postgres://shared/demo", <<TRUE>>), FeaturePreview>>,
     <<FeaturePreview, MainProd>>}

Metas ==
    {[kind |-> "missing", hasEnvironments |-> FALSE, environments |-> NoMappings],
     [kind |-> "malformed", hasEnvironments |-> FALSE, environments |-> NoMappings],
     [kind |-> "json", hasEnvironments |-> FALSE, environments |-> NoMappings]}
    \cup {[kind |-> "json", hasEnvironments |-> TRUE,
           environments |-> [mappings |-> m, defaultEnvironment |-> d]] :
            m \in MappingLists, d \in {Null, "staging"}}

\* relwave.local.json with and without a connection URL
LocalConfigs == {[connectionUrl |-> Null], [connectionUrl |-> "postgres://localhost/dev"]}

\* the configs saveConfig is called with, one of them naming a branch twice
Configs ==
    {[mappings |-> <<MainStaging, MainProd>>, defaultEnvironment |-> Null],
     [mappings |-> <<>>, defaultEnvironment |-> "qa"]}

\* the requests of the environment methods
EnvRequests ==
    [method : {"env.resolve", "env.getConfig"}]
    \cup [method : {"env.saveConfig"}, config : Configs]
    \cup [method : {"env.setMapping"}, mapping : {MainProd, MainStaging, FeaturePreview}]
    \cup [method : {"env.removeMapping"}, branch : {"main", "feature", ""}]
    \cup [method : {"store.saveLocalConfig"}, config : LocalConfigs]

ResolveWorld(g) ==
    \E isRepo \in BOOLEAN, b \in {Null, "main", "feature"}, m \in Metas,
       local \in LocalConfigs :
        /\ (~isRepo => b = Null)
        /\ g = [isRepo |-> isRepo, branch |-> b, meta |-> m, localConfig |-> local]

----------------------------------------------------------------------------
(* Operations *)

Pending == [status |-> "pending", value |-> <<>>, calls |-> <<>>]

Init ==
    /\ result = Pending
    /\ \/ /\ request \in [method : {"conflict.detect"}, targetBranch : TargetBranches]
          /\ ConflictWorld(git)
       \/ /\ request \in [method : {"timeline.list"}, count : 1..MaxCommits]
          /\ TimelineWorld(git)
       \/ /\ request \in [method : {"timeline.commitSummary"}, commitHash : {"c1"}]
          /\ SummaryWorld(git)
       \/ /\ request \in [method : {"timeline.autoCommit"}, message : Messages,
                          tag : TagNames]
          /\ AutoCommitWorld(git)
       \/ /\ request \in EnvRequests
          /\ ResolveWorld(git)

\* conflict.detect
HandleConflictDetect ==
    /\ request.method = "conflict.detect"
    /\ result.status = "pending"
    /\ result' = DetectConflicts(git, request.targetBranch)
    /\ UNCHANGED <<request, git>>

\* timeline.list
HandleTimelineList ==
    /\ request.method = "timeline.list"
    /\ result.status = "pending"
    /\ result' = GetTimeline(git, request.count)
    /\ UNCHANGED <<request, git>>

\* timeline.commitSummary
HandleCommitSummary ==
    /\ request.method = "timeline.commitSummary"
    /\ result.status = "pending"
    /\ result' = GetCommitSummary(git, request.commitHash)
    /\ UNCHANGED <<request, git>>

\* timeline.autoCommit
HandleAutoCommit ==
    /\ request.method = "timeline.autoCommit"
    /\ result.status = "pending"
    /\ LET done == AutoCommitSchema(git, request.message, request.tag)
       IN  /\ result' = done.outcome
           /\ git' = done.repo
    /\ UNCHANGED request

\* env.resolve
HandleEnvResolve ==
    /\ request.method = "env.resolve"
    /\ result.status = "pending"
    /\ result' = Resolve(git)
    /\ UNCHANGED <<request, git>>

\* env.getConfig
HandleEnvGetConfig ==
    /\ request.method = "env.getConfig"
    /\ result.status = "pending"
    /\ result' = Returned(GetConfig(git), <<>>)
    /\ UNCHANGED <<request, git>>

\* env.saveConfig
HandleEnvSaveConfig ==
    /\ request.method = "env.saveConfig"
    /\ result.status = "pending"
    /\ LET done == SaveConfig(git, request.config)
       IN  /\ result' = done.outcome
           /\ git' = done.repo
    /\ UNCHANGED request

\* env.setMapping
HandleEnvSetMapping ==
    /\ request.method = "env.setMapping"
    /\ result.status = "pending"
    /\ LET done == SetMapping(git, request.mapping)
       IN  /\ result' = done.outcome
           /\ git' = done.repo
    /\ UNCHANGED request

\* env.removeMapping: a request without a branch is refused before the service
HandleEnvRemoveMapping ==
    /\ request.method = "env.removeMapping"
    /\ result.status = "pending"
    /\ LET done == IF request.branch = "" THEN [repo |-> git, outcome |-> Raised(<<>>)]
                   ELSE RemoveMapping(git, request.branch)
       IN  /\ result' = done.outcome
           /\ git' = done.repo
    /\ UNCHANGED request

\* the developer's override written to relwave.local.json
HandleSaveLocalConfig ==
    /\ request.method = "store.saveLocalConfig"
    /\ result.status = "pending"
    /\ LET done == SaveLocalConfig(git, request.config)
       IN  /\ result' = done.outcome
           /\ git' = done.repo
    /\ UNCHANGED request

\* the requests a client sends after the answer to one: any environment request
\* after an environment request, the timeline after an auto-commit
FollowUps(req) ==
    IF req \in EnvRequests THEN EnvRequests
    ELSE IF req.method = "timeline.autoCommit"
    THEN [method : {"timeline.list"}, count : 1..MaxCommits]
    ELSE {}

\* the next request of the client, on the project as the last one left it
Receive ==
    /\ result.status # "pending"
    /\ \E next \in FollowUps(request) : request' = next
    /\ result' = Pending
    /\ UNCHANGED git

Next ==
    \/ HandleConflictDetect
    \/ HandleTimelineList
    \/ HandleCommitSummary
    \/ HandleAutoCommit
    \/ HandleEnvResolve
    \/ HandleEnvGetConfig
    \/ HandleEnvSaveConfig
    \/ HandleEnvSetMapping
    \/ HandleEnvRemoveMapping
    \/ HandleSaveLocalConfig
    \/ Receive

Spec == Init /\ [][Next]_vars

----------------------------------------------------------------------------
(* What the conflict detector is expected to report, stated on the two diffs *)

\* a conflict.detect request answered for branches that share a merge-base
Detected ==
    /\ request.method = "conflict.detect"
    /\ result.status = "returned"
    /\ git.isRepo
    /\ git.mergeBase # <<>>

BaseFile == ReadSchemaAt(git, Concat(git.mergeBase)).value
OursFile == ReadSchemaAt(git, CurrentRef(git)).value
TheirsFile == ReadSchemaAt(git, request.targetBranch).value

OursDiff == Diff(BaseFile, OursFile)
TheirsDiff == Diff(BaseFile, TheirsFile)

\* the status of table (sn, tn) in a diff, "none" when the diff has no such table
StatusIn(diff, sn, tn) ==
    IF HasName(diff.schemas, sn) /\ HasName(ByName(diff.schemas, sn).tables, tn)
    THEN ByName(ByName(diff.schemas, sn).tables, tn).status
    ELSE "none"

EntryIn(diff, sn, tn) == ByName(ByName(diff.schemas, sn).tables, tn)

Changed(status) == status \in {"added", "removed", "modified"}

\* the conflicts reported for table (sn, tn)
ConflictsOn(sn, tn) ==
    SelectSeq(result.value.schemaConflicts, LAMBDA c : c.schema = sn /\ c.table = tn)

\* table (sn, tn) has status so in ours' diff and st in theirs'
Pair(v, so, st) ==
    /\ v.table.status = so
    /\ StatusIn(TheirsDiff, v.schema, v.table.name) = st

\* C1: a table modified on both sides yields exactly one both-modified conflict,
\* high with a non-empty column list when the changed columns of the two sides
\* intersect, low without a column list when they are disjoint.
C1_BothModified ==
    Detected =>
        \A i \in 1..Len(TableVisits(OursDiff)) :
            LET v == TableVisits(OursDiff)[i]
                found == ConflictsOn(v.schema, v.table.name)
                common == ChangedCols(v.table) \cap
                            ChangedCols(EntryIn(TheirsDiff, v.schema, v.table.name))
            IN  Pair(v, "modified", "modified") =>
                    /\ Len(found) = 1
                    /\ found[1].type = "both-modified"
                    /\ IF common # {}
                       THEN /\ found[1].severity = "high"
                            /\ found[1].hasColumns
                            /\ found[1].columns # <<>>
                       ELSE /\ found[1].severity = "low"
                            /\ ~found[1].hasColumns

\* C2: a high both-modified conflict lists exactly the columns changed on both
\* sides, each with its status in ours' diff and its status in theirs' diff.
C2_ColumnsOfBothSides ==
    Detected =>
        \A i \in 1..Len(result.value.schemaConflicts) :
            LET c == result.value.schemaConflicts[i]
                ours == EntryIn(OursDiff, c.schema, c.table)
                theirs == EntryIn(TheirsDiff, c.schema, c.table)
            IN  (c.type = "both-modified" /\ c.severity = "high") =>
                    /\ StatusIn(OursDiff, c.schema, c.table) # "none"
                    /\ StatusIn(TheirsDiff, c.schema, c.table) # "none"
                    /\ NamesOf(c.columns) = ChangedCols(ours) \cap ChangedCols(theirs)
                    /\ \A k \in 1..Len(c.columns) :
                         /\ c.columns[k].oursChange
                                = ByName(ours.columns, c.columns[k].name).status
                         /\ c.columns[k].theirsChange
                                = ByName(theirs.columns, c.columns[k].name).status

\* C3: a table removed on one side and modified on the other, in either order,
\* yields exactly one modified-deleted conflict of severity high.
C3_ModifiedDeleted ==
    Detected =>
        \A i \in 1..Len(TableVisits(OursDiff)) :
            LET v == TableVisits(OursDiff)[i]
                found == ConflictsOn(v.schema, v.table.name)
            IN  (Pair(v, "removed", "modified") \/ Pair(v, "modified", "removed")) =>
                    /\ Len(found) = 1
                    /\ found[1].type = "modified-deleted"
                    /\ found[1].severity = "high"

\* C4: a table absent from the merge-base and added on both sides yields exactly
\* one both-added conflict of severity medium, whatever the two definitions.
C4_BothAdded ==
    Detected =>
        \A i \in 1..Len(TableVisits(OursDiff)) :
            LET v == TableVisits(OursDiff)[i]
                found == ConflictsOn(v.schema, v.table.name)
            IN  Pair(v, "added", "added") =>
                    /\ Len(found) = 1
                    /\ found[1].type = "both-added"
                    /\ found[1].severity = "medium"

\* C5: a (schema, table) pair is reported only if that pair is changed in both
\* diffs, and no pair is reported twice.
C5_OnlyPairsChangedOnBothSides ==
    Detected =>
        \A i \in 1..Len(result.value.schemaConflicts) :
            LET c == result.value.schemaConflicts[i]
            IN  /\ Changed(StatusIn(OursDiff, c.schema, c.table))
                /\ Changed(StatusIn(TheirsDiff, c.schema, c.table))
                /\ Len(ConflictsOn(c.schema, c.table)) = 1

\* C6: with a merge-base, the summary is the safe-to-merge message exactly when
\* there is no structural conflict and no textual conflict on the snapshot file;
\* a textual conflict without a structural one gets the text-level message.
C6_SafeToMergeSummary ==
    Detected =>
        LET report == result.value
            clean == report.schemaConflicts = <<>> /\ ~report.hasSchemaFileConflict
        IN  /\ (report.summary = SafeToMerge) <=> clean
            /\ (report.hasSchemaFileConflict /\ report.schemaConflicts = <<>>)
                    => report.summary = TextLevelConflict
            /\ report.conflictCount = Len(report.schemaConflicts)
            /\ report.hasSchemaFileConflict
                    = HasSchemaFileConflict(git, git.dryMerge)

C6_Witness ==
    /\ Detected
    /\ result.value.hasSchemaFileConflict
    /\ result.value.schemaConflicts = <<>>
    /\ result.value.summary = TextLevelConflict

\* C7: without a merge-base the report has a null merge-base, no conflicts and
\* the no-common-ancestor summary, and neither the dry-run merge nor any read of
\* the snapshot file was issued.
C7_NoCommonAncestor ==
    (/\ request.method = "conflict.detect"
     /\ result.status # "pending"
     /\ git.isRepo
     /\ git.mergeBase = <<>>) =>
        /\ result.status = "returned"
        /\ result.value.mergeBase = Null
        /\ result.value.conflictCount = 0
        /\ result.value.schemaConflicts = <<>>
        /\ result.value.fileConflicts = <<>>
        /\ ~result.value.hasSchemaFileConflict
        /\ result.value.summary = NoCommonAncestor
        /\ result.value.summary # SafeToMerge
        /\ result.value.currentBranch = git.branch
        /\ \A k \in 1..Len(result.calls) :
                result.calls[k] \notin {"dryMerge", "getFileAtRef"}

C7_Witness ==
    /\ request.method = "conflict.detect"
    /\ result.status = "returned"
    /\ git.isRepo
    /\ git.mergeBase = <<>>
    /\ result.value.summary = NoCommonAncestor

----------------------------------------------------------------------------
(* Read paths outside a repository, unreadable and malformed snapshot files *)

ReadMethods ==
    {"timeline.list", "timeline.commitSummary", "env.resolve", "conflict.detect"}

\* C8: outside a repository every read operation returns its neutral result, no
\* error, and issues no provider call after the repository check.
C8_NotARepository ==
    (request.method \in ReadMethods /\ result.status # "pending" /\ ~git.isRepo) =>
        /\ result.status = "returned"
        /\ result.calls = <<"isRepo">>
        /\ CASE request.method = "timeline.list" -> result.value = <<>>
             [] request.method = "timeline.commitSummary" -> result.value = Null
             [] request.method = "env.resolve" -> result.value.branch = Null
             [] request.method = "conflict.detect" ->
                    /\ result.value.mergeBase = Null
                    /\ result.value.conflictCount = 0
                    /\ result.value.schemaConflicts = <<>>
                    /\ result.value.fileConflicts = <<>>
                    /\ result.value.summary = "Not a git repository"

C8_Witness ==
    /\ request.method = "env.resolve"
    /\ result.status = "returned"
    /\ ~git.isRepo
    /\ result.value.branch = Null
    /\ result.value.connectionSource = "local"

\* the snapshot a ref stands for when an unreadable file counts as absent
SnapshotAt(ref) ==
    IF git.fileAt[ref].kind = "text" /\ git.fileAt[ref].wellFormed
    THEN SnapshotOf(git.fileAt[ref].tables)
    ELSE Absent

IsMalformed(ref) == git.fileAt[ref].kind = "text" /\ ~git.fileAt[ref].wellFormed

\* the refs the request reads the snapshot file at
RefsRead ==
    CASE request.method = "conflict.detect" ->
            IF git.isRepo /\ git.mergeBase # <<>>
            THEN {Concat(git.mergeBase), CurrentRef(git), request.targetBranch}
            ELSE {}
      [] request.method = "timeline.commitSummary" ->
            IF git.isRepo THEN {request.commitHash, request.commitHash \o "~1"} ELSE {}
      [] request.method = "timeline.autoCommit" ->
            IF git.isRepo /\ request.message = <<>> THEN {"HEAD"} ELSE {}
      [] OTHER -> {}

\* the structural conflicts of the three snapshots, unreadable ones absent
ExpectedConflicts ==
    FindConflicts(Diff(SnapshotAt(Concat(git.mergeBase)), SnapshotAt(CurrentRef(git))),
                  Diff(SnapshotAt(Concat(git.mergeBase)),
                       SnapshotAt(request.targetBranch)))

\* the summary of a commit against its first parent, unreadable ones absent
ExpectedSummary ==
    TimelineChangeSummary(Diff(SnapshotAt(request.commitHash \o "~1"),
                               SnapshotAt(request.commitHash)))

\* C9: a read of the snapshot file that fails or yields nothing counts as an
\* absent snapshot and raises no error, in detectConflicts at each of the three
\* refs and in getCommitSummary at the commit and at its first parent.
C9_UnreadableIsAbsent ==
    (/\ request.method \in {"conflict.detect", "timeline.commitSummary"}
     /\ result.status # "pending"
     /\ RefsRead # {}
     /\ \A r \in RefsRead : ~IsMalformed(r)) =>
        /\ result.status = "returned"
        /\ request.method = "conflict.detect"
                => result.value.schemaConflicts = ExpectedConflicts
        /\ request.method = "timeline.commitSummary"
                => result.value = ExpectedSummary

\* a root commit: no parent to read, the commit's tables all added
C9_Witness ==
    /\ request.method = "timeline.commitSummary"
    /\ result.status = "returned"
    /\ git.isRepo
    /\ git.fileAt[request.commitHash \o "~1"].kind = "throw"
    /\ result.value.tablesAdded = 2
    /\ result.value.columnsAdded > 2

\* C10: malformed JSON read at a ref counts as a missing snapshot in every
\* operation that parses it: the operation completes.
C10_MalformedIsMissing ==
    (/\ request.method
            \in {"conflict.detect", "timeline.commitSummary", "timeline.autoCommit"}
     /\ result.status # "pending"
     /\ \E r \in RefsRead : IsMalformed(r)
     /\ request.method = "timeline.autoCommit"
            => ~git.commitFails /\ ~git.tagFails) =>
        result.status = "returned"
----------------------------------------------------------------------------
(* The migration timeline and the auto-commit *)

\* a timeline.list request answered inside a repository
Listed ==
    /\ request.method = "timeline.list"
    /\ result.status = "returned"
    /\ git.isRepo

\* the reserved-namespace tags of the repository that resolve to a commit
ReservedTagsOn(fullHash) ==
    {Concat(git.tags[k].name) : k \in {j \in 1..Len(git.tags) :
        /\ git.tags[j].name[1] = TagPrefix
        /\ ~git.tags[j].throws
        /\ git.tags[j].target = fullHash}}

\* C11: the timeline has one entry per commit of the snapshot file's history,
\* newest first, at most the limit asked for, and no commit outside that
\* history appears, tagged in the reserved namespace or not.
C11_TimelineIsFileHistory ==
    (request.method = "timeline.list" /\ result.status # "pending" /\ git.isRepo) =>
        /\ result.status = "returned"
        /\ Len(result.value) <= request.count
        /\ Len(result.value) = Min(request.count, Len(git.log))
        /\ \A i \in 1..Len(result.value) :
                /\ result.value[i].fullHash = Concat(git.log[i].fullHash)
                /\ result.value[i].hash = git.log[i].fullHash[1]
                /\ result.value[i].subject = Concat(git.log[i].subject)
                /\ result.value[i].fullHash # Concat(Hash3)

\* a history longer than the limit, and a reserved tag on a commit outside it
C11_Witness ==
    /\ Listed
    /\ Len(git.log) > request.count
    /\ Len(result.value) = request.count
    /\ ReservedTagsOn(Hash3) # {}

\* C12: an entry is flagged as an auto-commit exactly when its subject starts
\* with the reserved prefix, and lists exactly the reserved-namespace tags that
\* resolve to its commit.
C12_FlagAndTags ==
    Listed =>
        \A i \in 1..Len(result.value) :
            /\ result.value[i].isAutoCommit
                    <=> (git.log[i].subject[1] = AutoCommitPrefix)
            /\ {result.value[i].tags[k] : k \in 1..Len(result.value[i].tags)}
                    = ReservedTagsOn(git.log[i].fullHash)

\* a prefixed commit with a reserved tag, next to a commit with neither
C12_Witness ==
    /\ Listed
    /\ Len(result.value) = 2
    /\ \E i \in 1..2 :
            /\ result.value[i].isAutoCommit
            /\ result.value[i].tags # <<>>
            /\ ~result.value[3 - i].isAutoCommit
            /\ result.value[3 - i].tags = <<>>
    /\ \E k \in 1..Len(git.tags) : git.tags[k].name[1] # TagPrefix

\* C13: the commit an auto-commit creates carries the reserved prefix, and the
\* timeline read after it flags that commit as an auto-commit.
C13_AutoCommitIsPrefixed ==
    /\ (request.method = "timeline.autoCommit" /\ result.status = "returned")
            => git.log[1].subject[1] = AutoCommitPrefix
    /\ (Listed /\ git.log # <<>> /\ git.log[1].fullHash = git.newHash)
            => result.value[1].isAutoCommit

\* C14: outside a repository the auto-commit raises after the repository check
\* alone and leaves the repository as it was.
C14_AutoCommitNeedsRepository ==
    [][(request.method = "timeline.autoCommit" /\ ~git.isRepo /\ result.status = "pending")
            => /\ result'.status = "raised"
               /\ result'.calls = <<"isRepo">>
               /\ git' = git]_vars

C14_Witness ==
    /\ request.method = "timeline.autoCommit"
    /\ result.status = "raised"
    /\ ~git.isRepo
    /\ request.tag # <<>>
    /\ git.log = <<>>
    /\ git.tags = <<>>

\* the position of a provider call in the calls issued, 0 when it was not issued
CallIndex(calls, name) ==
    IF \E k \in 1..Len(calls) : calls[k] = name
    THEN CHOOSE k \in 1..Len(calls) : calls[k] = name
    ELSE 0

\* C15: with a tag asked for, the tag is created after the commit succeeded and
\* points at the new commit; a failed commit leaves no tag; a failed tag leaves
\* the commit in place and the error is raised.
C15_TagAfterCommit ==
    [][(/\ request.method = "timeline.autoCommit"
        /\ result.status = "pending"
        /\ result'.status # "pending"
        /\ git.isRepo
        /\ request.tag # <<>>) =>
            LET committed == Len(git'.log) = Len(git.log) + 1
                                /\ Tail(git'.log) = git.log
                                /\ git'.log[1].fullHash = git.newHash
                tagged == Len(git'.tags) = Len(git.tags) + 1
                                /\ git'.tags[Len(git'.tags)].target = git.newHash
                                /\ git'.tags[Len(git'.tags)].name[1] = TagPrefix
            IN  /\ (git'.tags # git.tags) =>
                        /\ tagged
                        /\ committed
                        /\ 0 < CallIndex(result'.calls, "commitFiles")
                        /\ CallIndex(result'.calls, "commitFiles")
                                < CallIndex(result'.calls, "createTag")
                /\ result'.status = "returned" => committed /\ tagged
                /\ (git.commitFails /\ CallIndex(result'.calls, "commitFiles") # 0) =>
                        /\ git'.tags = git.tags
                        /\ git'.log = git.log
                        /\ result'.status = "raised"
                /\ (~git.commitFails /\ git.tagFails
                        /\ CallIndex(result'.calls, "commitFiles") # 0) =>
                        /\ committed
                        /\ git'.tags = git.tags
                        /\ result'.status = "raised"]_vars

\* the commit made, the tag refused: the commit stays and the error is raised
C15_Witness ==
    /\ request.method = "timeline.autoCommit"
    /\ result.status = "raised"
    /\ request.tag # <<>>
    /\ git.tagFails
    /\ ~git.commitFails
    /\ Len(git.log) = 1
    /\ git.tags = <<>>
----------------------------------------------------------------------------
(* The environment resolver and the committed mapping list *)

\* the mapping list committed in relwave.json, empty when there is none
Committed(g) ==
    IF g.meta.kind = "json" /\ g.meta.hasEnvironments
    THEN g.meta.environments.mappings
    ELSE <<>>

\* the default label committed in relwave.json, Null when there is none
CommittedDefault(g) ==
    IF g.meta.kind = "json" /\ g.meta.hasEnvironments
    THEN g.meta.environments.defaultEnvironment
    ELSE Null

\* the branch the working copy is on, Null outside a repository or detached
BranchOf(g) == IF g.isRepo THEN g.branch ELSE Null

\* the positions of the committed mappings of the current branch
Matches(g) ==
    {i \in 1..Len(Committed(g)) :
        BranchOf(g) # Null /\ Committed(g)[i].branch = BranchOf(g)}

\* the first of them; asked for only when there is one
FirstMatch(g) == CHOOSE i \in Matches(g) : \A j \in Matches(g) : i <= j

HasOverride(g) == g.localConfig.connectionUrl \notin {Null, ""}

HasSharedUrl(g) ==
    Matches(g) # {} /\ Committed(g)[FirstMatch(g)].connectionUrl \notin {Null, ""}

Resolved ==
    /\ request.method = "env.resolve"
    /\ result.status = "returned"

C17_ProductionOnlyWhenFlagged ==
    Resolved =>
        /\ result.value.isProduction \in BOOLEAN
        /\ result.value.isProduction =>
                \E i \in Matches(git) : Committed(git)[i].isProduction = <<TRUE>>
        /\ Matches(git) = {} => ~result.value.isProduction

\* a matched mapping without the flag, next to a default label and an override
C17_Witness ==
    /\ Resolved
    /\ Matches(git) # {}
    /\ Committed(git)[FirstMatch(git)].isProduction = <<>>
    /\ CommittedDefault(git) # Null
    /\ HasOverride(git)
    /\ ~result.value.isProduction

\* C18: resolve returns the label of the first mapping whose branch is the
\* current branch, character for character; without a match or a branch, the
\* committed default label, and without one the fallback label.
C18_EnvironmentLabel ==
    Resolved =>
        /\ result.value.branch = BranchOf(git)
        /\ result.value.environment =
                IF Matches(git) # {} THEN Committed(git)[FirstMatch(git)].environment
                ELSE IF CommittedDefault(git) # Null THEN CommittedDefault(git)
                ELSE "development"

\* a mapping of "Main" does not answer for the branch "main"
C18_Witness ==
    /\ Resolved
    /\ BranchOf(git) = "main"
    /\ Matches(git) = {}
    /\ \E i \in 1..Len(Committed(git)) : Committed(git)[i].branch = "Main"
    /\ CommittedDefault(git) = "staging"
    /\ result.value.environment = "staging"

\* C19: the committed mapping list never holds two entries of one branch, and
\* setMapping replaces the entry of its branch in place or appends, leaving the
\* other entries and their order as they were.
C19_OneEntryPerBranch ==
    /\ [](request \in EnvRequests =>
            \A i, j \in 1..Len(Committed(git)) :
                Committed(git)[i].branch = Committed(git)[j].branch => i = j)
    /\ [][(/\ request.method = "env.setMapping"
           /\ result.status = "pending"
           /\ result'.status = "returned") =>
            LET old == Committed(git)
                new == Committed(git')
                at == {i \in 1..Len(old) : old[i].branch = request.mapping.branch}
            IN  IF at = {}
                THEN new = Append(old, request.mapping)
                ELSE /\ Len(new) = Len(old)
                     /\ \E k \in at :
                            /\ new[k] = request.mapping
                            /\ \A i \in 1..Len(old) : i # k => new[i] = old[i]]_vars
----------------------------------------------------------------------------
(* The diff engine on the snapshots the operations hand it *)

\* a diff that reports nothing changed: no count, no table, no column
NothingChanged(diff) ==
    /\ ~diff.summary.hasChanges
    /\ diff.summary.tablesAdded = 0
    /\ diff.summary.tablesRemoved = 0
    /\ diff.summary.tablesModified = 0
    /\ diff.summary.columnsAdded = 0
    /\ diff.summary.columnsRemoved = 0
    /\ diff.summary.columnsModified = 0
    /\ \A i \in 1..Len(diff.schemas) :
        \A j \in 1..Len(diff.schemas[i].tables) :
            /\ diff.schemas[i].tables[j].status = "unchanged"
            /\ \A k \in 1..Len(diff.schemas[i].tables[j].columns) :
                    diff.schemas[i].tables[j].columns[k].status = "unchanged"

\* the snapshots read at the refs of the request
SnapshotsRead == {SnapshotAt(r) : r \in RefsRead}

\* a commit whose snapshot file parses to the snapshot of its parent
SameAsParent ==
    /\ request.method = "timeline.commitSummary"
    /\ result.status = "returned"
    /\ git.isRepo
    /\ \A r \in RefsRead : git.fileAt[r].kind = "text" /\ git.fileAt[r].wellFormed
    /\ SnapshotAt(request.commitHash) = SnapshotAt(request.commitHash \o "~1")

\* C20: the diff of a snapshot with itself reports no change: hasChanges false,
\* the six counts zero, every table and every column unchanged.
C20_DiffOfSnapshotWithItself ==
    /\ SameAsParent =>
            /\ result.value.tablesAdded = 0
            /\ result.value.tablesRemoved = 0
            /\ result.value.tablesModified = 0
            /\ result.value.columnsAdded = 0
            /\ result.value.columnsRemoved = 0
            /\ result.value.columnsModified = 0
    /\ (result.status = "returned"
            /\ request.method \in {"timeline.commitSummary", "conflict.detect"}) =>
            \A X \in SnapshotsRead : NothingChanged(Diff(X, X))

\* a commit that leaves a snapshot of two tables as its parent had it
C20_Witness ==
    /\ SameAsParent
    /\ Len(Flatten(Map(LAMBDA sc : sc.tables, SnapshotAt(request.commitHash).schemas))) = 2
    /\ result.value.tablesModified = 0
    /\ result.value.columnsAdded = 0
\* the tables of a snapshot, over all its schemas
TablesIn(X) == IF X.present THEN Flatten(Map(LAMBDA sc : sc.tables, X.schemas)) ELSE <<>>

\* the columns of a snapshot, over all its tables
ColumnsIn(X) == Flatten(Map(LAMBDA t : t.columns, TablesIn(X)))

\* every table and every column of a diff carries the status
AllStatus(diff, status) ==
    \A i \in 1..Len(diff.schemas) :
        \A j \in 1..Len(diff.schemas[i].tables) :
            /\ diff.schemas[i].tables[j].status = status
            /\ \A k \in 1..Len(diff.schemas[i].tables[j].columns) :
                    diff.schemas[i].tables[j].columns[k].status = status

\* the six counts when every table and column of X is added (or removed)
CountsOf(X, added) ==
    [tablesAdded |-> IF added THEN Len(TablesIn(X)) ELSE 0,
     tablesRemoved |-> IF added THEN 0 ELSE Len(TablesIn(X)),
     tablesModified |-> 0,
     columnsAdded |-> IF added THEN Len(ColumnsIn(X)) ELSE 0,
     columnsRemoved |-> IF added THEN 0 ELSE Len(ColumnsIn(X)),
     columnsModified |-> 0]

\* a commitSummary answered for a commit and a parent that both read without
\* a parse error
Summarised ==
    /\ request.method = "timeline.commitSummary"
    /\ result.status = "returned"
    /\ git.isRepo

\* C21: the diff from an absent snapshot to X reports every table and column of
\* X as added, with tablesAdded and columnsAdded the totals of X and the other
\* counts zero; the diff from X to absent is the mirror with removed; an absent
\* snapshot gives the diffs of a snapshot with zero schemas.
C21_DiffAgainstAbsent ==
    /\ (Summarised /\ SnapshotAt(request.commitHash \o "~1") = Absent)
            => result.value = CountsOf(SnapshotAt(request.commitHash), TRUE)
    /\ (Summarised /\ SnapshotAt(request.commitHash) = Absent)
            => result.value = CountsOf(SnapshotAt(request.commitHash \o "~1"), FALSE)
    /\ (result.status = "returned"
            /\ request.method \in {"timeline.commitSummary", "conflict.detect"}) =>
            \A X \in SnapshotsRead :
                LET added == Diff(Absent, X)
                    removed == Diff(X, Absent)
                IN  /\ AllStatus(added, "added")
                    /\ AllStatus(removed, "removed")
                    /\ TimelineChangeSummary(added) = CountsOf(X, TRUE)
                    /\ TimelineChangeSummary(removed) = CountsOf(X, FALSE)
                    /\ added.summary.hasChanges = (TablesIn(X) # <<>>)
                    /\ added = Diff(SchemaFile(<<>>), X)
                    /\ removed = Diff(X, SchemaFile(<<>>))

\* a root commit: two tables, more columns than tables, no parent to read
C21_Witness ==
    /\ Summarised
    /\ git.fileAt[request.commitHash \o "~1"].kind = "throw"
    /\ Len(TablesIn(SnapshotAt(request.commitHash))) = 2
    /\ Len(ColumnsIn(SnapshotAt(request.commitHash))) > 2
    /\ result.value.tablesAdded = 2
    /\ result.value.columnsRemoved = 0
\* C30: a table removed in ours' diff and removed in theirs' diff yields no
\* conflict entry, so it does not count in conflictCount.
C30_RemovedOnBothSides ==
    Detected =>
        \A i \in 1..Len(TableVisits(OursDiff)) :
            LET v == TableVisits(OursDiff)[i]
            IN  Pair(v, "removed", "removed") =>
                    /\ ConflictsOn(v.schema, v.table.name) = <<>>
                    /\ result.value.conflictCount
                            = Len(SelectSeq(result.value.schemaConflicts,
                                    LAMBDA c : ~(c.schema = v.schema
                                                 /\ c.table = v.table.name)))
\* severityOrder of the report's sort
SeverityRank(severity) ==
    CASE severity = "high" -> 0 [] severity = "medium" -> 1 [] severity = "low" -> 2

\* the position of a conflict's table in the walk of ours' diff
VisitIndex(visits, c) ==
    CHOOSE i \in 1..Len(visits) :
        visits[i].schema = c.schema /\ visits[i].table.name = c.table

\* C25: schemaConflicts is ordered high, then medium, then low, and conflicts of
\* equal severity keep the order in which the walk of ours' diff found them.
C25_SortedBySeverityStable ==
    Detected =>
        LET found == result.value.schemaConflicts
            visits == TableVisits(OursDiff)
        IN  \A i, j \in 1..Len(found) :
                i < j =>
                    /\ SeverityRank(found[i].severity) <= SeverityRank(found[j].severity)
                    /\ found[i].severity = found[j].severity
                            => VisitIndex(visits, found[i]) < VisitIndex(visits, found[j])

\* the sort moved a high conflict in front of one found earlier in the walk
C25_Witness ==
    /\ Detected
    /\ Len(result.value.schemaConflicts) = 2
    /\ result.value.schemaConflicts[1].severity = "high"
    /\ result.value.schemaConflicts[2].severity \in {"medium", "low"}
    /\ VisitIndex(TableVisits(OursDiff), result.value.schemaConflicts[1])
            > VisitIndex(TableVisits(OursDiff), result.value.schemaConflicts[2])
\* the conflicts of the report with their severities replaced by sv
WithSeverities(conflicts, sv) ==
    [k \in 1..Len(conflicts) |-> [conflicts[k] EXCEPT !.severity = sv[k]]]

\* the number of conflicts of a severity in the report
Severe(severity) ==
    Len(SelectSeq(result.value.schemaConflicts, LAMBDA c : c.severity = severity))

\* C26: with at least one structural conflict the summary tells how many
\* conflicts are high and how many are medium: no list of as many conflicts
\* with other counts of high or medium ones gets the same summary.
C26_SummaryNotesHighAndMedium ==
    (Detected /\ result.value.schemaConflicts # <<>>) =>
        LET found == result.value.schemaConflicts
        IN  \A sv \in [1..Len(found) -> {"high", "medium", "low"}] :
                Summary(WithSeverities(found, sv), result.value.hasSchemaFileConflict)
                        = result.value.summary
                    => /\ CountSeverity("high", WithSeverities(found, sv)) = Severe("high")
                       /\ CountSeverity("medium", WithSeverities(found, sv))
                                = Severe("medium")

\* C26, amended: with at least one structural conflict the summary is the number
\* of conflicting tables followed by the number of high conflicts when there is
\* one, else by the number of medium conflicts when there is one, else by
\* nothing.
C26_SummaryNotesMostSevere ==
    (Detected /\ result.value.schemaConflicts # <<>>) =>
        LET n == Len(result.value.schemaConflicts)
            tables == ToString(n) \o " conflicting table" \o (IF n > 1 THEN "s" ELSE "")
        IN  /\ result.value.conflictCount = n
            /\ result.value.summary =
                    IF Severe("high") > 0
                    THEN tables \o " (" \o ToString(Severe("high")) \o " high severity)"
                    ELSE IF Severe("medium") > 0
                    THEN tables \o " (" \o ToString(Severe("medium"))
                                \o " medium severity)"
                    ELSE tables

\* one high and one medium conflict: the summary names the high one only
C26_Witness ==
    /\ Detected
    /\ Severe("high") = 1
    /\ Severe("medium") = 1
    /\ result.value.summary = "2 conflicting tables (1 high severity)"
\* C27: hasSchemaFileConflict is true exactly when the repo-relative path of the
\* tracked snapshot file is among the paths the dry-run merge flags.
C27_FlagIsTrackedFileAmongConflicts ==
    Detected =>
        /\ result.value.fileConflicts = git.dryMerge
        /\ result.value.hasSchemaFileConflict
                = (\E i \in 1..Len(git.dryMerge) : git.dryMerge[i] = RelSchemaPath(git))
\* relwave.json is absent or does not parse
NoMetadata == git.meta.kind \in {"missing", "malformed"}

\* C28: without readable project metadata getConfig returns a config without
\* mappings and resolve returns the fallback environment, not production, none
\* of them raising; saveConfig, setMapping and removeMapping raise and leave
\* the metadata file as it was, absent or unreadable.
C28_WithoutMetadata ==
    [][(/\ request \in EnvRequests
        /\ result.status = "pending"
        /\ result'.status # "pending"
        /\ NoMetadata) =>
            /\ git'.meta = git.meta
            /\ request.method = "env.getConfig" =>
                    /\ result'.status = "returned"
                    /\ result'.value.mappings = <<>>
            /\ request.method = "env.resolve" =>
                    /\ result'.status = "returned"
                    /\ result'.value.environment = "development"
                    /\ ~result'.value.isProduction
                    /\ result'.value.connectionSource \in {"local", "none"}
            /\ request.method \in {"env.saveConfig", "env.setMapping",
                                   "env.removeMapping"} =>
                    /\ result'.status = "raised"
                    /\ git' = git]_vars

\* setMapping refused for a project that has no relwave.json
C28_Witness ==
    /\ request.method = "env.setMapping"
    /\ result.status = "raised"
    /\ git.meta.kind = "missing"
\* the operations that only read
ReadOnlyMethods ==
    {"timeline.list", "timeline.commitSummary", "env.getConfig", "env.resolve",
     "conflict.detect"}

\* the provider calls that write to the repository
WriteCalls == {"commitFiles", "createTag"}

\* how many times a provider call was issued
Issued(call, log) == Len(SelectSeq(log, LAMBDA x : x = call))

\* C24: getTimeline, getCommitSummary, getConfig, resolve and detectConflicts
\* write nothing; one autoCommitSchema makes at most one commit, of the snapshot
\* file only, and creates at most one tag; saveConfig, setMapping and
\* removeMapping write the project metadata only.
C24_Writes ==
    [][(result.status = "pending" /\ result'.status # "pending") =>
            /\ request.method \in ReadOnlyMethods =>
                    /\ git' = git
                    /\ \A k \in 1..Len(result'.calls) : result'.calls[k] \notin WriteCalls
            /\ request.method = "timeline.autoCommit" =>
                    /\ Issued("commitFiles", result'.calls) <= 1
                    /\ Issued("createTag", result'.calls) <= 1
                    /\ git' = [git EXCEPT !.log = git'.log, !.tags = git'.tags]
                    /\ \/ git'.log = git.log
                       \/ /\ Tail(git'.log) = git.log
                          /\ git'.log[1].files = << <<"schema/", "schema.json">> >>
                          /\ Issued("commitFiles", result'.calls) = 1
                    /\ \/ git'.tags = git.tags
                       \/ /\ SubSeq(git'.tags, 1, Len(git.tags)) = git.tags
                          /\ Len(git'.tags) = Len(git.tags) + 1
                          /\ Issued("createTag", result'.calls) = 1
            /\ request.method \in {"env.saveConfig", "env.setMapping",
                                   "env.removeMapping"} =>
                    git' = [git EXCEPT !.meta = git'.meta]]_vars

\* an auto-commit with a tag: one commit of the snapshot file, one tag
C24_Witness ==
    /\ request.method = "timeline.autoCommit"
    /\ result.status = "returned"
    /\ Issued("commitFiles", result.calls) = 1
    /\ Issued("createTag", result.calls) = 1
    /\ git.log # <<>>
    /\ git.log[1].fullHash = git.newHash
    /\ git.log[1].files = << <<"schema/", "schema.json">> >>
----------------------------------------------------------------------------
(* ProjectStore: relwave.json, relwave.local.json and schema/schema.json of a
   project, in the cloned repository of an imported project or in the internal
   projects folder of a regular one *)

\* the most clock readings (new Date()) a session of store requests takes
MaxClock == 3

Undefined == "undefined"

ProjectId == "p1"

MissingFile == [kind |-> "missing"]
MalformedFile == [kind |-> "malformed"]
JsonFile(value) == [kind |-> "json", value |-> value]

\* JSON.stringify of a column: a property that is undefined is left out
StringifyColumn(column) ==
    IF "defaultValue" \in DOMAIN column /\ column.defaultValue = Undefined
    THEN [k \in DOMAIN column \ {"defaultValue"} |-> column[k]]
    ELSE column

\* JSON.stringify(schemas), held as the value the text parses to
Stringify(schemas) ==
    [i \in 1..Len(schemas) |->
        [schemas[i] EXCEPT !.tables =
            [j \in 1..Len(@) |->
                [@[j] EXCEPT !.columns =
                    [k \in 1..Len(@) |-> StringifyColumn(@[k])]]]]]

\* projectDir: the cloned repository when the cache knows a sourcePath
ProjectDir(s) == IF s.cached THEN "source" ELSE "internal"

\* readJSON of a project file: <<value>>, or <<>> for null (missing, unparsable)
ReadJSONAt(s, dir, name) ==
    IF s.dirs[dir][name].kind = "json" THEN <<s.dirs[dir][name].value>> ELSE <<>>

\* writeJSON: the file replaced by JSON.stringify(data)
WriteJSON(s, dir, name, data) ==
    [s EXCEPT !.dirs[dir][name] =
        JsonFile(IF "schemas" \in DOMAIN data
                 THEN [data EXCEPT !.schemas = Stringify(@)] ELSE data)]

\* loadIndex
LoadIndex(s) == s.index

\* the index entry of the project: its position, 0 when none
IndexEntry(index) ==
    IF \E i \in 1..Len(index) : index[i].id = ProjectId
    THEN CHOOSE i \in 1..Len(index) : index[i].id = ProjectId
    ELSE 0

\* ensureSourcePathCache: the index read once
EnsureSourcePathCache(s) ==
    IF s.cacheLoaded THEN s
    ELSE [s EXCEPT !.cacheLoaded = TRUE,
                   !.cached = @ \/ \E i \in 1..Len(s.index) :
                                        s.index[i].sourcePath # Null]

\* listProjects: the cache hydrated on every call
ListProjects(s) ==
    [store |-> [s EXCEPT !.cacheLoaded = TRUE,
                         !.cached = @ \/ \E i \in 1..Len(s.index) :
                                              s.index[i].sourcePath # Null],
     outcome |-> Returned(LoadIndex(s), <<>>)]

GetLocalConfig(s) == ReadJSONAt(s, ProjectDir(s), "local")

\* getProject: relwave.json with the databaseId of the local config merged in
GetProject(s) ==
    LET meta == ReadJSONAt(s, ProjectDir(s), "meta")
        local == GetLocalConfig(s)
    IN  IF meta = <<>> THEN <<>>
        ELSE IF local # <<>> /\ local[1].databaseId \notin {Null, ""}
        THEN <<[meta[1] EXCEPT !.databaseId = local[1].databaseId]>>
        ELSE meta

\* the index entry synced by updateProject
SyncUpdated(s, updates, now) ==
    LET at == IndexEntry(LoadIndex(s))
    IN  IF at = 0 THEN s
        ELSE [s EXCEPT !.index[at] =
                [@ EXCEPT !.name = IF updates.name # Undefined THEN updates.name ELSE @,
                          !.updatedAt = now]]

\* updateProject
UpdateProject(s, updates) ==
    LET meta == GetProject(s)
        now == s.clock
        updated == [meta[1] EXCEPT
                        !.name = IF updates.name # Undefined THEN updates.name ELSE @,
                        !.updatedAt = now]
    IN  IF meta = <<>> THEN [store |-> s, outcome |-> Returned(<<>>, <<>>)]
        ELSE [store |-> SyncUpdated(WriteJSON(s, ProjectDir(s), "meta", updated),
                                    updates, now),
              outcome |-> Returned(<<updated>>, <<>>)]

\* the index entry synced by linkDatabase
SyncLinked(s, databaseId, now) ==
    LET at == IndexEntry(LoadIndex(s))
    IN  IF at = 0 THEN s
        ELSE [s EXCEPT !.index[at] = [@ EXCEPT !.databaseId = databaseId,
                                               !.updatedAt = now]]

\* linkDatabase of a regular project: relwave.json and the schema file's reference
LinkRegular(s, meta, databaseId, now) ==
    LET written == WriteJSON(s, ProjectDir(s), "meta",
                             [meta EXCEPT !.databaseId = databaseId,
                                          !.updatedAt = now])
        schemaFile == ReadJSONAt(written, ProjectDir(written), "schema")
    IN  IF schemaFile = <<>> THEN written
        ELSE WriteJSON(written, ProjectDir(written), "schema",
                       [schemaFile[1] EXCEPT !.databaseId = databaseId])

\* linkDatabase of an imported project: the local config only
LinkImported(s, databaseId) ==
    LET local == IF GetLocalConfig(s) = <<>>
                 THEN [databaseId |-> Null, connectionUrl |-> Null]
                 ELSE GetLocalConfig(s)[1]
    IN  WriteJSON(s, ProjectDir(s), "local", [local EXCEPT !.databaseId = databaseId])

\* linkDatabase
LinkDatabase(s, databaseId) ==
    LET meta == GetProject(s)
        now == s.clock
        loaded == EnsureSourcePathCache(s)
        isImported == loaded.cached
        linked == IF isImported THEN LinkImported(loaded, databaseId)
                  ELSE LinkRegular(loaded, meta[1], databaseId, now)
    IN  IF meta = <<>> THEN [store |-> s, outcome |-> Returned(<<>>, <<>>)]
        ELSE [store |-> SyncLinked(linked, databaseId, now),
              outcome |-> Returned(<<[meta[1] EXCEPT !.databaseId = databaseId,
                                                     !.updatedAt = now]>>, <<>>)]

\* importProject: the clone registered, its databaseId put in the local config
ImportProject(s, databaseId) ==
    LET sourceMeta == ReadJSONAt(s, "source", "meta")
        index == LoadIndex(s)
        existingLocal == ReadJSONAt(s, "source", "local")
        local == IF existingLocal = <<>>
                 THEN [databaseId |-> databaseId, connectionUrl |-> Null]
                 ELSE [existingLocal[1] EXCEPT !.databaseId = databaseId]
        registered == [s EXCEPT !.cached = TRUE]
        entry == [id |-> sourceMeta[1].id, name |-> sourceMeta[1].name,
                  databaseId |-> databaseId, sourcePath |-> "/clone",
                  updatedAt |-> s.clock]
    IN  IF databaseId = "" THEN [store |-> s, outcome |-> Raised(<<>>)]
        ELSE IF sourceMeta = <<>> \/ sourceMeta[1].name = ""
        THEN [store |-> s, outcome |-> Raised(<<>>)]
        ELSE IF IndexEntry(index) # 0 THEN [store |-> s, outcome |-> Raised(<<>>)]
        ELSE [store |-> [WriteJSON(registered, "source", "local", local)
                            EXCEPT !.index = Append(index, entry)],
              outcome |-> Returned(<<[sourceMeta[1] EXCEPT !.databaseId = databaseId]>>,
                                   <<>>)]

\* saveSchema that writes whatever the file holds
SaveSchemaAlways(s, schemas) ==
    LET meta == GetProject(s)
        file == [version |-> 1, projectId |-> ProjectId,
                 databaseId |-> meta[1].databaseId, schemas |-> schemas,
                 cachedAt |-> s.clock]
    IN  IF meta = <<>> THEN [store |-> s, outcome |-> Raised(<<>>)]
        ELSE [store |-> WriteJSON(s, ProjectDir(s), "schema", file),
              outcome |-> Returned(file, <<>>)]

\* saveSchema: no write when the schemas serialise to what the file holds
SaveSchema(s, schemas) ==
    LET meta == GetProject(s)
        existing == ReadJSONAt(s, ProjectDir(s), "schema")
        file == [version |-> 1, projectId |-> ProjectId,
                 databaseId |-> meta[1].databaseId, schemas |-> schemas,
                 cachedAt |-> s.clock]
    IN  IF meta = <<>> THEN [store |-> s, outcome |-> Raised(<<>>)]
        ELSE IF existing # <<>> /\ Stringify(existing[1].schemas) = Stringify(schemas)
        THEN [store |-> s, outcome |-> Returned(existing[1], <<>>)]
        ELSE [store |-> WriteJSON(s, ProjectDir(s), "schema", file),
              outcome |-> Returned(file, <<>>)]

----------------------------------------------------------------------------
(* The projects and the store requests of a session *)

Users(columns) == <<SchemaSnapshot("public", <<TableSnapshot("users", columns)>>)>>

\* the snapshots the introspector hands to saveSchema; one leaves a column's
\* defaultValue undefined
StoreSchemas ==
    {<<>>,
     Users(<<ColumnSnapshot("id", "int")>>),
     Users(<<ColumnSnapshot("id", "int"), ColumnSnapshot("email", "text")>>),
     Users(<<[ColumnSnapshot("id", "int") EXCEPT !.defaultValue = Undefined]>>)}

Metadata(databaseId, name) ==
    [id |-> ProjectId, databaseId |-> databaseId, name |-> name, updatedAt |-> 0]

\* relwave.json as the clone or the projects folder holds it
MetadataFiles ==
    {MissingFile, MalformedFile, JsonFile(Metadata("db-origin", "shop")),
     JsonFile(Metadata("db-origin", ""))}

\* relwave.local.json before the store touches it
LocalFiles ==
    {MissingFile,
     JsonFile([databaseId |-> Null, connectionUrl |-> "postgres://localhost/dev"])}

\* schema/schema.json before the store touches it
SchemaFiles ==
    {MissingFile, MalformedFile}
    \cup {JsonFile([version |-> 1, projectId |-> ProjectId, databaseId |-> "db-origin",
                    schemas |-> Stringify(sc), cachedAt |-> 0]) :
            sc \in {<<>>, Users(<<ColumnSnapshot("id", "int")>>)}}

NoDir == [meta |-> MissingFile, local |-> MissingFile, schema |-> MissingFile]

Store(source, internal, index) ==
    [dirs |-> [d \in {"source", "internal"} |-> IF d = "source" THEN source ELSE internal],
     index |-> index, cached |-> FALSE, cacheLoaded |-> FALSE, clock |-> 1]

IndexOf(databaseId, sourcePath) ==
    <<[id |-> ProjectId, name |-> "shop", databaseId |-> databaseId,
       sourcePath |-> sourcePath, updatedAt |-> 0]>>

\* a clone that is not imported yet, a regular project of the projects folder,
\* and a project imported by an earlier run of the application
StoreWorld(s) ==
    \/ \E m \in MetadataFiles, l \in LocalFiles, f \in SchemaFiles :
            s = Store([meta |-> m, local |-> l, schema |-> f], NoDir, <<>>)
    \/ \E m \in MetadataFiles, f \in SchemaFiles :
            s = Store(NoDir, [meta |-> m, local |-> MissingFile, schema |-> f],
                      IndexOf("db-origin", Null))
    \/ \E f \in SchemaFiles :
            s = Store([meta |-> JsonFile(Metadata("db-origin", "shop")),
                       local |-> JsonFile([databaseId |-> "db-local",
                                           connectionUrl |-> Null]),
                       schema |-> f],
                      NoDir, IndexOf("db-local", "/clone"))

StoreRequests ==
    [method : {"project.import"}, databaseId : {"", "db-local"}]
    \cup [method : {"project.get", "project.list"}]
    \cup [method : {"project.linkDatabase"}, databaseId : {"db-local", "db-other"}]
    \cup [method : {"project.update"}, updates : [name : {Undefined, "renamed"}]]
    \cup [method : {"schema.save"}, schemas : StoreSchemas]

StoreInit ==
    /\ result = Pending
    /\ request \in StoreRequests
    /\ StoreWorld(git)

\* the answer of a store operation, the clock read once more
Answer(done) ==
    /\ result' = done.outcome
    /\ git' = [done.store EXCEPT !.clock = @ + 1]
    /\ UNCHANGED request

HandleImportProject ==
    /\ request.method = "project.import"
    /\ result.status = "pending"
    /\ Answer(ImportProject(git, request.databaseId))

HandleGetProject ==
    /\ request.method = "project.get"
    /\ result.status = "pending"
    /\ Answer([store |-> git, outcome |-> Returned(GetProject(git), <<>>)])

HandleListProjects ==
    /\ request.method = "project.list"
    /\ result.status = "pending"
    /\ Answer(ListProjects(git))

HandleLinkDatabase ==
    /\ request.method = "project.linkDatabase"
    /\ result.status = "pending"
    /\ Answer(LinkDatabase(git, request.databaseId))

HandleUpdateProject ==
    /\ request.method = "project.update"
    /\ result.status = "pending"
    /\ Answer(UpdateProject(git, request.updates))

HandleSaveSchema ==
    /\ request.method = "schema.save"
    /\ result.status = "pending"
    /\ Answer(SaveSchema(git, request.schemas))

\* the next store request of the session
StoreReceive ==
    /\ result.status # "pending"
    /\ git.clock <= MaxClock
    /\ request' \in StoreRequests
    /\ result' = Pending
    /\ UNCHANGED git

StoreNext ==
    \/ HandleImportProject
    \/ HandleGetProject
    \/ HandleListProjects
    \/ HandleLinkDatabase
    \/ HandleUpdateProject
    \/ HandleSaveSchema
    \/ StoreReceive

StoreSpec == StoreInit /\ [][StoreNext]_vars
----------------------------------------------------------------------------
(* The store's writes to the tracked files *)

\* a store request is answered in this step
Answered(method) ==
    /\ request.method = method
    /\ result.status = "pending"
    /\ result'.status # "pending"

\* C22: saveSchema with the schema data the snapshot file already holds writes
\* nothing and returns the existing file with its old cachedAt; after any save,
\* saving the same snapshot again leaves the file as the first save left it;
\* saveSchema for a project without readable metadata fails and writes nothing.
C22_SaveSchemaSkipsIdenticalData ==
    [][Answered("schema.save") =>
        LET existing == ReadJSONAt(git, ProjectDir(git), "schema")
            hasMetadata == git.dirs[ProjectDir(git)].meta.kind = "json"
            again == SaveSchema(git', request.schemas)
        IN  /\ (hasMetadata /\ existing # <<>> /\ existing[1].schemas = request.schemas)
                    => /\ git'.dirs = git.dirs
                       /\ result'.status = "returned"
                       /\ result'.value = existing[1]
                       /\ result'.value.cachedAt < git.clock
            /\ hasMetadata
                    => /\ result'.status = "returned"
                       /\ again.store.dirs = git'.dirs
                       /\ again.outcome.value = git'.dirs[ProjectDir(git')].schema.value
                       /\ again.outcome.value.cachedAt <= git.clock
            /\ ~hasMetadata
                    => /\ result'.status = "raised"
                       /\ git'.dirs = git.dirs]_vars

\* a save answered with the file an earlier save of the session wrote
C22_Witness ==
    /\ request.method = "schema.save"
    /\ result.status = "returned"
    /\ request.schemas # <<>>
    /\ result.value.cachedAt >= 1
    /\ result.value.cachedAt < git.clock - 1
    /\ git.dirs[ProjectDir(git)].schema = JsonFile(result.value)

\* the index lists the project with a sourcePath
Imported(s) == \E i \in 1..Len(s.index) : s.index[i].sourcePath # Null

\* C23: for an imported project, importProject, getProject, linkDatabase and
\* updateProject leave the databaseId of the tracked relwave.json as it is.
C23_TrackedDatabaseIdKept ==
    [][(/\ \/ Answered("project.import")
           \/ Answered("project.get")
           \/ Answered("project.linkDatabase")
           \/ Answered("project.update")
        /\ Imported(git')
        /\ git.dirs["source"].meta.kind = "json") =>
            /\ git'.dirs["source"].meta.kind = "json"
            /\ git'.dirs["source"].meta.value.databaseId
                    = git.dirs["source"].meta.value.databaseId]_vars
----------------------------------------------------------------------------
(* The bridge: one query.run, its runner (streamQueryCancelable), the events of
   its stream and query.cancel. Every action is one task of the event loop; git
   holds the runner and the handler's closure, result the messages sent. *)

\* the most rows the streamed query delivers
MaxRows == 2

\* rpc.sendNotification: the outbox with one more notification
SendNotification(out, method, status) ==
    [out EXCEPT !.sent = Append(@, [method |-> method, status |-> status])]

\* reject(e) of the runner's promise: the first settlement wins
Reject(r, reason) ==
    IF r.promise = "pending" THEN [r EXCEPT !.promise = "rejected", !.reason = reason]
    ELSE r

\* resolve() of the runner's promise
Resolve_(r) == IF r.promise = "pending" THEN [r EXCEPT !.promise = "resolved"] ELSE r

\* onBatch of query.run: it throws once cancelled, else it sends the rows
OnBatch(r, out, rows) ==
    IF r.cancelled THEN [threw |-> TRUE, run |-> r, out |-> out]
    ELSE [threw |-> FALSE,
          run |-> [r EXCEPT !.totalRows = @ + rows, !.batchIndex = @ + 1],
          out |-> SendNotification(out, "query.result", "batch")]

\* flush: the buffer emptied into onBatch
Flush(r, out) ==
    IF r.buffer = 0 THEN [threw |-> FALSE, run |-> r, out |-> out]
    ELSE OnBatch([r EXCEPT !.buffer = 0], out, r.buffer)

\* onDone of query.run
OnDone(r, out) == SendNotification(out, "query.done", "success")

\* stream.on('data'): the row buffered, a full buffer flushed without await, a
\* failed flush forwarded to reject
OnData(r, out, batchSize) ==
    LET buffered == [r EXCEPT !.buffer = @ + 1, !.remaining = @ - 1]
        flushed == Flush(buffered, out)
    IN  IF buffered.buffer < batchSize THEN [run |-> buffered, out |-> out]
        ELSE IF flushed.threw THEN [run |-> Reject(flushed.run, "cancel"), out |-> out]
        ELSE [run |-> flushed.run, out |-> flushed.out]

\* stream.on('end'): flush, finished, onDone, resolve
OnEnd(r, out) ==
    LET flushed == Flush(r, out)
        ended == [flushed.run EXCEPT !.stream = "ended"]
    IN  IF flushed.threw
        THEN [run |-> Reject(ended, "cancel"), out |-> out]
        ELSE [run |-> Resolve_([ended EXCEPT !.finished = TRUE]),
              out |-> OnDone(ended, flushed.out)]

\* cancel of the runner: best effort, the stream destroyed when there is one
Cancel(r) ==
    IF r.finished \/ r.runnerCancelled THEN r
    ELSE [r EXCEPT !.runnerCancelled = TRUE,
                   !.stream = IF @ = "open" THEN "destroyed" ELSE @,
                   !.clientEnded = TRUE]

\* the handler registered with sessions.registerCancel
RegisteredCancel(r) == Cancel([r EXCEPT !.cancelled = TRUE])

\* notifyQueryError
NotifyQueryError(out) == SendNotification(out, "query.error", "error")

\* the background waiter of query.run: catch and finally after runner.promise
AwaitRunner(r, out) ==
    [run |-> [r EXCEPT !.session = "removed", !.phase = "ended"],
     out |-> IF r.promise = "resolved" THEN out
             ELSE IF r.reason = "cancel" \/ r.cancelled
             THEN SendNotification(out, "query.done", "cancelled")
             ELSE NotifyQueryError(out)]

\* the runner and the closure of query.run before the request is handled
NewRun(rows) ==
    [phase |-> "idle", connect |-> "pending", stream |-> "null", remaining |-> rows,
     buffer |-> 0, finished |-> FALSE, runnerCancelled |-> FALSE, cancelled |-> FALSE,
     promise |-> "pending", reason |-> "none", clientEnded |-> FALSE,
     session |-> "created", totalRows |-> 0, batchIndex |-> 0]

NoMessages == [response |-> "none", sent |-> <<>>]

QueryInit ==
    /\ request \in [method : {"query.run"}, sessionId : {"", "s1"}, batchSize : 1..2]
    /\ \E rows \in 0..MaxRows : git = NewRun(rows)
    /\ result = NoMessages

\* case "query.run": the runner started, the cancel handler registered
HandleQueryRun ==
    /\ git.phase = "idle"
    /\ result.response = "none"
    /\ IF request.sessionId = ""
       THEN /\ result' = [result EXCEPT !.response = "NO_SESSION"]
            /\ UNCHANGED git
       ELSE /\ result' = [result EXCEPT !.response = "ok"]
            /\ git' = [git EXCEPT !.phase = "running", !.session = "registered"]
    /\ UNCHANGED request

\* client.connect() resolves: the query stream is created
ConnectResolves ==
    /\ git.phase # "idle"
    /\ git.connect = "pending"
    /\ git' = [git EXCEPT !.connect = "resolved", !.stream = "open"]
    /\ UNCHANGED <<request, result>>

\* client.connect() rejects: the runner's promise rejects with that error
ConnectRejects ==
    /\ git.phase # "idle"
    /\ git.connect = "pending"
    /\ git' = Reject([git EXCEPT !.connect = "rejected"], "other")
    /\ UNCHANGED <<request, result>>

StreamData ==
    /\ git.stream = "open"
    /\ git.remaining > 0
    /\ LET done == OnData(git, result, request.batchSize)
       IN  git' = done.run /\ result' = done.out
    /\ UNCHANGED request

StreamEnd ==
    /\ git.stream = "open"
    /\ git.remaining = 0
    /\ LET done == OnEnd(git, result)
       IN  git' = done.run /\ result' = done.out
    /\ UNCHANGED request

\* stream.on('error'): an error of the query or of the connection
StreamError ==
    /\ git.stream = "open"
    /\ \E reason \in {"cancel", "other"} :
            git' = Reject([git EXCEPT !.stream = "errored"], reason)
    /\ UNCHANGED <<request, result>>

\* the error a destroyed stream emits before it closes: Error('cancelled')
StreamDestroyed ==
    /\ git.stream = "destroyed"
    /\ git' = Reject([git EXCEPT !.stream = "closed"], "cancel")
    /\ UNCHANGED <<request, result>>

\* case "query.cancel": sessions.cancel runs the registered handler
HandleQueryCancel ==
    /\ git.session = "registered"
    /\ git' = RegisteredCancel(git)
    /\ UNCHANGED <<request, result>>

\* runner.promise has settled: the waiter's catch and finally
RunnerSettles ==
    /\ git.phase = "running"
    /\ git.promise # "pending"
    /\ LET done == AwaitRunner(git, result)
       IN  git' = done.run /\ result' = done.out
    /\ UNCHANGED request

QueryNext ==
    \/ HandleQueryRun
    \/ ConnectResolves
    \/ ConnectRejects
    \/ StreamData
    \/ StreamEnd
    \/ StreamError
    \/ StreamDestroyed
    \/ HandleQueryCancel
    \/ RunnerSettles

QuerySpec == QueryInit /\ [][QueryNext]_vars

\* the terminal notifications sent so far
Terminal(sent) == SelectSeq(sent, LAMBDA n : n.method \in {"query.done", "query.error"})

====
